---- MODULE Spec2Model ----
(***************************************************************************)
(* ChipWhisperer hardware transports.                                      *)
(*                                                                         *)
(* Part 1: the USB programmer transport of client/src/lib/webusb.ts        *)
(*         (useWebUSB: connect, disconnect, detectChip, readData,          *)
(*         writeData, eraseChip) on top of a WebUSB platform whose calls   *)
(*         may fail and whose IN transfers may deliver fewer bytes than    *)
(*         requested, or no data at all.                                   *)
(* Part 2: the serial transport WebSerialAPI (lib/webserial) with its      *)
(*         read loop.                                                      *)
(* Part 3: the error classification of client/src/lib/hardware-utils.ts.   *)
(* Part 4: the WebSocket hook of client/src/hooks/use-websocket.ts.        *)
(* Part 5: the SPI flasher tab, which calls useWebUSB on every render.     *)
(* Part 6: the two users of the useSerial hook, top bar and serial console.*)
(***************************************************************************)
EXTENDS Integers, Sequences, FiniteSets, TLC

VARIABLES
    isSupported,    \* webusb.ts:16   'usb' in navigator && !!navigator.usb
    device,         \* webusb.ts:17   the USBDevice the hook references, NoDevice = null
    isConnected,    \* webusb.ts:18
    devOpened,      \* platform: USBDevice.opened, per device
    devConfigured,  \* platform: USBDevice.configuration !== null, per device
    devClaimed,     \* platform: interface 0 claimed, per device
    sessionOpen,    \* history: a connect() resolved and no disconnect() returned since
    lastCall,       \* history: the call of the hook that returned in the last step
    usb,            \* the calls of the hook in flight and the command each device holds
    serial,         \* the WebSerialAPI object, the serial ports and the read loops (Part 2)
    ws,             \* the useWebSocket hook, its sockets and reconnect timers (Part 4)
    flasher,        \* the state of the SpiFlasher component (Part 5)
    app             \* the useSerial hooks of the top bar and of the console (Part 6)

-----------------------------------------------------------------------------
(* Bounds *)

NumDevices == 2
MaxChunks == 3

Devices == 1..NumDevices
NoDevice == 0

-----------------------------------------------------------------------------
(* Program constants *)

chunkSize == 256
pageSize == 256
ReadIdLength == 4
MinIdBytes == 3
EraseStep == 10
EraseEnd == 100

Min(a, b) == IF a < b THEN a ELSE b

-----------------------------------------------------------------------------
(* Number formatting: byte.toString(16).toUpperCase().padStart(w, '0') *)

HexDigitsUpper == <<"0", "1", "2", "3", "4", "5", "6", "7",
                    "8", "9", "A", "B", "C", "D", "E", "F">>

RECURSIVE toStringUpper16(_)
toStringUpper16(n) ==
    IF n < 16 THEN HexDigitsUpper[n + 1]
    ELSE toStringUpper16(n \div 16) \o HexDigitsUpper[(n % 16) + 1]

RECURSIVE padStart(_, _, _)
padStart(s, w, c) == IF Len(s) >= w THEN s ELSE padStart(c \o s, w, c)

byteToHex(b) == padStart(toStringUpper16(b), 2, "0")

(* Array.from(data).map(byteToHex).join(''), evaluated by halves *)
RECURSIVE hexString(_)
hexString(data) ==
    IF Len(data) = 0 THEN ""
    ELSE IF Len(data) = 1 THEN byteToHex(data[1])
    ELSE LET h == Len(data) \div 2
         IN hexString(SubSeq(data, 1, h)) \o hexString(SubSeq(data, h + 1, Len(data)))

RECURSIVE join(_)
join(chunks) == IF chunks = <<>> THEN "" ELSE Head(chunks) \o join(Tail(chunks))

(* (a >> k) & 0xFF on a JavaScript number; the addresses of the model are  *)
(* below 2^31, where the ToInt32 conversion of >> is the identity          *)
shiftMask(a, k) == (a \div (2 ^ k)) % 256

addressBytes(a) == <<shiftMask(a, 16), shiftMask(a, 8), shiftMask(a, 0)>>

-----------------------------------------------------------------------------
(* Records of a call: platform calls and progress callbacks, in order *)

Out(bytes) == [kind |-> "out", data |-> bytes, len |-> Len(bytes), num |-> 0, den |-> 1]
In(n) == [kind |-> "in", data |-> <<>>, len |-> n, num |-> 0, den |-> 1]
Progress(n, d) == [kind |-> "progress", data |-> <<>>, len |-> 0, num |-> n, den |-> d]

NoChip == [manufacturerId |-> "", deviceId |-> "", name |-> "", capacity |-> "",
           blockSize |-> "", pageSize |-> ""]

-----------------------------------------------------------------------------
(* The programmer behind the USB device.  A device answers an IN transfer  *)
(* with the data of the last command an OUT transfer delivered to it: the  *)
(* read-ID response after 0x9F, the flash bytes at the commanded address   *)
(* after 0x03, nothing after any other command.  dev is what the platform  *)
(* does to one call: failAt is the control transfer of the call that       *)
(* throws, counted from 1 (0: none), badAt the IN transfer of the call     *)
(* that delivers one byte less than asked (short) or no data; pattern and  *)
(* idResp are the flash contents and the read-ID response of the device    *)
(* the commands of the call reach.                                         *)

TransferErrMsg == "A transfer error has occurred."

NotOpenedMsg == "The device must be opened first."

NoData == [hasData |-> FALSE, bytes |-> <<>>]
DataOf(bytes) == [hasData |-> TRUE, bytes |-> bytes]

flashByte(pattern, a) ==
    IF pattern = 1 THEN a % 256 ELSE (7 * a + (a \div 256) + 3) % 256

address24(cmd) == cmd[2] * 65536 + cmd[3] * 256 + cmd[4]

GoodDev == [failAt |-> 0, badAt |-> 0, badMode |-> "full", pattern |-> 1, idResp |-> NoData]

NoLatch == [kind |-> "none", address |-> 0, pattern |-> 1, idResp |-> NoData]

(* what the device holds ready after the OUT transfer of cmd *)
latchOf(dev, cmd) ==
    IF cmd[1] = 159 THEN [NoLatch EXCEPT !.kind = "id", !.idResp = dev.idResp]
    ELSE IF cmd[1] = 3
         THEN [NoLatch EXCEPT !.kind = "flash", !.address = address24(cmd),
                              !.pattern = dev.pattern]
         ELSE NoLatch

(* the result of controlTransferIn(setup, n) *)
transferInData(latch, dev, inIndex, n) ==
    LET full == [i \in 1..n |-> flashByte(latch.pattern, latch.address + i - 1)]
    IN IF latch.kind = "id"
       THEN IF latch.idResp.hasData /\ Len(latch.idResp.bytes) > n
            THEN DataOf(SubSeq(latch.idResp.bytes, 1, n))
            ELSE latch.idResp
       ELSE IF latch.kind = "none" THEN NoData
       ELSE IF dev.badAt = inIndex /\ dev.badMode = "nodata" THEN NoData
       ELSE IF dev.badAt = inIndex /\ dev.badMode = "short"
            THEN DataOf(SubSeq(full, 1, n - 1))
            ELSE DataOf(full)

(* a control transfer rejects on a device that is not open *)
throws(dev, opened, callIndex) == ~opened \/ dev.failAt = callIndex

(* property access on the closure variable device while it is null *)
nullRead(prop) == "Cannot read properties of null (reading '" \o prop \o "')"

-----------------------------------------------------------------------------
(* Calls.  Every function of the hook is async: it runs to its next await  *)
(* and continues when the awaited promise settles; nothing keeps other     *)
(* calls of the hook from running in between.  A call is a record: its     *)
(* arguments (address, length, data, hasCb), what the platform does to it  *)
(* (dev, req), the closure variables when it was made (pre), the promise   *)
(* it awaits (pc, on device target), its local variables (offset, chunks), *)
(* the control transfers it has issued (calls), the one that threw         *)
(* (threw), the results of its IN transfers (responses), whether its       *)
(* caller makes no other call until it has returned (awaited), whether     *)
(* another call was in flight during it (overlapped), its platform calls   *)
(* and progress callbacks in order (log) and its result.                   *)

NoReq == [pick |-> 0, failStep |-> "none", errName |-> ""]

NoPre == [device |-> NoDevice, isConnected |-> FALSE, sessionOpen |-> FALSE]

NoCall == [op |-> "none", address |-> 0, length |-> 0, data |-> <<>>, hasCb |-> FALSE,
           dev |-> GoodDev, req |-> NoReq, pre |-> NoPre,
           pc |-> "done", target |-> NoDevice, offset |-> 0, chunks |-> <<>>,
           calls |-> 0, threw |-> 0, responses |-> <<>>, awaited |-> TRUE,
           overlapped |-> FALSE,
           outcome |-> "none", error |-> "", value |-> "", chip |-> NoChip, log |-> <<>>]

Call(op, address, length, data, hasCb, dev, req, pre) ==
    [NoCall EXCEPT !.op = op, !.address = address, !.length = length, !.data = data,
                   !.hasCb = hasCb, !.dev = dev, !.req = req, !.pre = pre,
                   !.pc = "start", !.outcome = "pending"]

resultOf(c) ==
    [outcome |-> c.outcome, error |-> c.error, value |-> c.value, chip |-> c.chip,
     log |-> c.log]

(* return and throw of an async function *)
resolve(w, c, v, chip) ==
    [w |-> w, c |-> [c EXCEPT !.pc = "done", !.outcome = "resolved", !.value = v,
                              !.chip = chip]]
reject(w, c, msg) ==
    [w |-> w, c |-> [c EXCEPT !.pc = "done", !.outcome = "rejected", !.error = msg]]

(* await of a platform promise on the device the closure holds *)
await(w, c, pc, entry) ==
    [w |-> w, c |-> [c EXCEPT !.pc = pc, !.target = w.device, !.log = Append(@, entry)]]

(* await device.controlTransferOut / controlTransferIn *)
transfer(w, c, pc, entry) == await(w, [c EXCEPT !.calls = @ + 1], pc, entry)

(* await new Promise(resolve => setTimeout(resolve, ms)) *)
sleep(w, c) == [w |-> w, c |-> [c EXCEPT !.pc = "timer", !.target = NoDevice]]

(* the OUT transfer the call awaits has reached the device *)
delivered(w, c) ==
    [w EXCEPT !.latch[c.target] = latchOf(c.dev, c.log[Len(c.log)].data)]

-----------------------------------------------------------------------------
(* readData, webusb.ts:136-197 *)

readProgress_offsetOnly(offset, readSize, length) == Progress(offset * 100, length)

(* progressCallback((offset + readSize) / length * 100), as the exact fraction *)
readProgress(offset, readSize, length) == Progress((offset + readSize) * 100, length)

readError_unwrapped(msg) == msg

(* the catch block of readData, webusb.ts:194-196 *)
readError(msg) == "Read operation failed: " \o msg

readSizeOf(c) == Min(chunkSize, c.length - c.offset)

(* the head of the for loop, webusb.ts:151-169 *)
readNext(w, c) ==
    LET readAddress == c.address + c.offset
        readCommand == <<3>> \o addressBytes(readAddress)
    IN IF ~(c.offset < c.length) THEN resolve(w, c, join(c.chunks), NoChip)
       ELSE IF w.device = NoDevice
            THEN reject(w, c, readError(nullRead("controlTransferOut")))
            ELSE transfer(w, c, "out", Out(readCommand))

(* webusb.ts:141-143 *)
readBegin(w, c) ==
    IF w.device = NoDevice \/ ~w.isConnected THEN reject(w, c, "USB device not connected")
    ELSE readNext(w, c)

(* the code after an await of readData, webusb.ts:169-191 *)
readResume(w, c) ==
    LET readSize == readSizeOf(c)
        response == transferInData(w.latch[c.target], c.dev, c.calls \div 2, readSize)
        chunks1 == IF response.hasData
                   THEN Append(c.chunks, hexString(response.bytes))
                   ELSE c.chunks
        log1 == IF c.hasCb
                THEN Append(c.log, readProgress(c.offset, readSize, c.length))
                ELSE c.log
    IN IF throws(c.dev, w.opened[c.target], c.calls)
       THEN reject(w, [c EXCEPT !.threw = c.calls], readError(TransferErrMsg))
       ELSE IF c.pc = "out"
       THEN IF w.device = NoDevice
            THEN reject(delivered(w, c), c, readError(nullRead("controlTransferIn")))
            ELSE transfer(delivered(w, c), c, "in", In(readSize))
       ELSE readNext(w, [c EXCEPT !.responses = Append(@, response), !.chunks = chunks1,
                                  !.log = log1, !.offset = @ + chunkSize])

-----------------------------------------------------------------------------
(* writeData, webusb.ts:199-245 *)

writeProgress_perPage(offset, writeSize, total) ==
    Progress((offset + writeSize) * 100, writeSize)

(* progressCallback((offset + writeSize) / data.length * 100) *)
writeProgress(offset, writeSize, total) == Progress((offset + writeSize) * 100, total)

pageSlice_noOffset(data, offset, writeSize) == SubSeq(data, 1, writeSize)

(* data.slice(offset, offset + writeSize) *)
pageSlice(data, offset, writeSize) == SubSeq(data, offset + 1, offset + writeSize)

writeError(msg) == "Write operation failed: " \o msg

writeSizeOf(c) == Min(pageSize, Len(c.data) - c.offset)

(* the head of the for loop, webusb.ts:213-233 *)
writeNext(w, c) ==
    LET writeSize == writeSizeOf(c)
        writeAddress == c.address + c.offset
        pageData == pageSlice(c.data, c.offset, writeSize)
        writeCommand == <<2>> \o addressBytes(writeAddress) \o pageData
    IN IF ~(c.offset < Len(c.data)) THEN resolve(w, c, "", NoChip)
       ELSE IF w.device = NoDevice
            THEN reject(w, c, writeError(nullRead("controlTransferOut")))
            ELSE transfer(w, c, "out", Out(writeCommand))

(* webusb.ts:204-206 *)
writeBegin(w, c) ==
    IF w.device = NoDevice \/ ~w.isConnected THEN reject(w, c, "USB device not connected")
    ELSE writeNext(w, c)

(* the code after an await of writeData, webusb.ts:233-241 *)
writeResume(w, c) ==
    LET log1 == IF c.hasCb
                THEN Append(c.log, writeProgress(c.offset, writeSizeOf(c), Len(c.data)))
                ELSE c.log
    IN IF c.pc = "out"
       THEN IF throws(c.dev, w.opened[c.target], c.calls)
            THEN reject(w, [c EXCEPT !.threw = c.calls], writeError(TransferErrMsg))
            ELSE sleep(delivered(w, c), c)
       ELSE writeNext(w, [c EXCEPT !.log = log1, !.offset = @ + pageSize])

-----------------------------------------------------------------------------
(* eraseChip, webusb.ts:247-274 *)

eraseError(msg) == "Erase operation failed: " \o msg

eraseRamp_exclusive(i) == i < EraseEnd

(* the condition of for (let i = 0; i <= 100; i += 10), webusb.ts:265 *)
eraseRamp(i) == i <= EraseEnd

(* the head of the for loop, webusb.ts:265-266; offset holds i *)
eraseNext(w, c) == IF eraseRamp(c.offset) THEN sleep(w, c) ELSE resolve(w, c, "", NoChip)

(* webusb.ts:248-262 *)
eraseBegin(w, c) ==
    IF w.device = NoDevice \/ ~w.isConnected THEN reject(w, c, "USB device not connected")
    ELSE transfer(w, c, "out", Out(<<199>>))

(* the code after an await of eraseChip, webusb.ts:262-270 *)
eraseResume(w, c) ==
    LET log1 == IF c.hasCb THEN Append(c.log, Progress(c.offset, 1)) ELSE c.log
    IN IF c.pc = "out"
       THEN IF throws(c.dev, w.opened[c.target], c.calls)
            THEN reject(w, [c EXCEPT !.threw = c.calls], eraseError(TransferErrMsg))
            ELSE eraseNext(delivered(w, c), c)
       ELSE eraseNext(w, [c EXCEPT !.log = log1, !.offset = @ + EraseStep])

-----------------------------------------------------------------------------
(* detectChip, webusb.ts:69-134 *)

chipInfoOf_littleEndian(data) ==
    LET manufacturerId == padStart(toStringUpper16(data[1]), 2, "0")
        deviceId == padStart(toStringUpper16(data[3] * 256 + data[2]), 4, "0")
        chipInfo == [manufacturerId |-> manufacturerId, deviceId |-> deviceId,
                     name |-> "Unknown Chip", capacity |-> "Unknown",
                     blockSize |-> "64KB", pageSize |-> "256B"]
    IN IF manufacturerId = "EF" /\ deviceId = "4018"
       THEN [chipInfo EXCEPT !.name = "W25Q128FV", !.capacity = "16MB (128Mbit)"]
       ELSE IF manufacturerId = "C2" /\ deviceId = "2017"
            THEN [chipInfo EXCEPT !.name = "MX25L6405D", !.capacity = "8MB (64Mbit)"]
            ELSE chipInfo

(* webusb.ts:97-127: the chip record built from the read-ID response *)
chipInfoOf(data) ==
    LET manufacturerId == padStart(toStringUpper16(data[1]), 2, "0")
        deviceId == padStart(toStringUpper16(data[2] * 256 + data[3]), 4, "0")
        chipInfo == [manufacturerId |-> manufacturerId, deviceId |-> deviceId,
                     name |-> "Unknown Chip", capacity |-> "Unknown",
                     blockSize |-> "64KB", pageSize |-> "256B"]
    IN IF manufacturerId = "EF" /\ deviceId = "4018"
       THEN [chipInfo EXCEPT !.name = "W25Q128FV", !.capacity = "16MB (128Mbit)"]
       ELSE IF manufacturerId = "C2" /\ deviceId = "2017"
            THEN [chipInfo EXCEPT !.name = "MX25L6405D", !.capacity = "8MB (64Mbit)"]
            ELSE chipInfo

hasIdBytes_strict(response) ==
    response.hasData /\ Len(response.bytes) > MinIdBytes

(* response.data && response.data.byteLength >= 3, webusb.ts:97 *)
hasIdBytes(response) ==
    response.hasData /\ Len(response.bytes) >= MinIdBytes

detectError(msg) == "Chip detection failed: " \o msg

(* webusb.ts:70-86 *)
detectBegin(w, c) ==
    IF w.device = NoDevice \/ ~w.isConnected THEN reject(w, c, "USB device not connected")
    ELSE transfer(w, c, "out", Out(<<159, 0, 0, 0>>))

(* the code after an await of detectChip, webusb.ts:86-133 *)
detectResume(w, c) ==
    LET response == transferInData(w.latch[c.target], c.dev, 1, ReadIdLength)
        c1 == [c EXCEPT !.responses = Append(@, response)]
    IN IF throws(c.dev, w.opened[c.target], c.calls)
       THEN reject(w, [c EXCEPT !.threw = c.calls], detectError(TransferErrMsg))
       ELSE IF c.pc = "out"
       THEN IF w.device = NoDevice
            THEN reject(delivered(w, c), c, detectError(nullRead("controlTransferIn")))
            ELSE transfer(delivered(w, c), c, "in", In(ReadIdLength))
       ELSE IF hasIdBytes(response)
            THEN resolve(w, c1, "", chipInfoOf(response.bytes))
            ELSE reject(w, c1, detectError("Failed to read chip ID"))

-----------------------------------------------------------------------------
(* connect, webusb.ts:20-54.  req: what the platform does during the call: *)
(* pick is the device the chooser returns, failStep the platform call that *)
(* throws (if it is reached), errName the name of the error thrown.        *)

PCall(name) == [kind |-> name, data |-> <<>>, len |-> 0, num |-> 0, den |-> 1]

errMessage(errName) ==
    IF errName = "NotFoundError" THEN "No device selected." ELSE "Access denied."

(* the catch block of connect, webusb.ts:48-53 *)
connectError(errName, msg) ==
    IF errName = "NotFoundError" THEN "No CH341A device selected"
    ELSE "Failed to connect to USB device: " \o msg

UnsupportedMsg ==
    "WebUSB API is not supported in this browser. Please use Chrome, Edge, or other Chromium-based browsers."

(* webusb.ts:21-36 *)
connectBegin(w, c) ==
    IF ~w.isSupported THEN reject(w, c, UnsupportedMsg)
    ELSE await(w, c, "requestDevice", PCall("requestDevice"))

(* webusb.ts:45, read of the closure variable included *)
connectClaim(w, c) ==
    IF w.device = NoDevice
    THEN reject(w, c, connectError("TypeError", nullRead("claimInterface")))
    ELSE await(w, c, "claimInterface", PCall("claimInterface"))

(* webusb.ts:41-45 *)
connectConfigure(w, c) ==
    IF w.device = NoDevice
    THEN reject(w, c, connectError("TypeError", nullRead("configuration")))
    ELSE IF ~w.configured[w.device]
         THEN await(w, c, "selectConfiguration", PCall("selectConfiguration"))
         ELSE connectClaim(w, c)

(* the code after an await of connect, webusb.ts:31-53 *)
connectResume(w, c) ==
    LET d == c.target
        picked == [w EXCEPT !.device = c.req.pick]
    IN IF c.req.failStep = c.pc
       THEN reject(w, c, connectError(c.req.errName, errMessage(c.req.errName)))
       ELSE IF c.pc = "requestDevice" THEN await(picked, c, "open", PCall("open"))
       ELSE IF c.pc = "open" THEN connectConfigure([w EXCEPT !.opened[d] = TRUE], c)
       ELSE IF ~w.opened[d]
            THEN reject(w, c, connectError("InvalidStateError", NotOpenedMsg))
       ELSE IF c.pc = "selectConfiguration"
            THEN connectClaim([w EXCEPT !.configured[d] = TRUE], c)
       ELSE resolve([w EXCEPT !.claimed[d] = TRUE, !.isConnected = TRUE], c, "", NoChip)

-----------------------------------------------------------------------------
(* disconnect, webusb.ts:56-67.  releaseInterface throws on a device that  *)
(* is not open; the catch block logs and the call returns.  The failing    *)
(* platform call is req.failStep.                                          *)

(* webusb.ts:57-59 *)
disconnectBegin(w, c) ==
    IF w.device = NoDevice THEN resolve(w, c, "", NoChip)
    ELSE await(w, c, "releaseInterface", PCall("releaseInterface"))

(* the code after an await of disconnect, webusb.ts:59-65 *)
disconnectResume(w, c) ==
    LET d == c.target
        released == [w EXCEPT !.claimed[d] = FALSE]
        closed == IF w.opened[d]
                  THEN [w EXCEPT !.opened[d] = FALSE, !.claimed[d] = FALSE]
                  ELSE w
    IN IF c.req.failStep = c.pc THEN resolve(w, c, "", NoChip)
       ELSE IF c.pc = "releaseInterface"
       THEN IF ~w.opened[d] THEN resolve(w, c, "", NoChip)
            ELSE IF w.device = NoDevice THEN resolve(released, c, "", NoChip)
            ELSE await(released, c, "close", PCall("close"))
       ELSE resolve([closed EXCEPT !.device = NoDevice, !.isConnected = FALSE], c, "",
                    NoChip)

-----------------------------------------------------------------------------
(* A call from its first statement to its first await, and from the        *)
(* settling of the promise it awaits to its next await                     *)

begin(w, c) ==
    CASE c.op = "connect" -> connectBegin(w, c)
      [] c.op = "disconnect" -> disconnectBegin(w, c)
      [] c.op = "detectChip" -> detectBegin(w, c)
      [] c.op = "readData" -> readBegin(w, c)
      [] c.op = "writeData" -> writeBegin(w, c)
      [] c.op = "eraseChip" -> eraseBegin(w, c)

resume(w, c) ==
    CASE c.op = "connect" -> connectResume(w, c)
      [] c.op = "disconnect" -> disconnectResume(w, c)
      [] c.op = "detectChip" -> detectResume(w, c)
      [] c.op = "readData" -> readResume(w, c)
      [] c.op = "writeData" -> writeResume(w, c)
      [] c.op = "eraseChip" -> eraseResume(w, c)

opFrame_sessionDroppedOnFailure(w, c) ==
    IF c.outcome = "rejected"
    THEN [w EXCEPT !.device = NoDevice, !.isConnected = FALSE]
    ELSE w

(* detectChip, readData, writeData and eraseChip assign neither device nor *)
(* isConnected                                                             *)
opFrame(w, c) == w

DataOps == {"detectChip", "readData", "writeData", "eraseChip"}

(* the closure variables and the devices after a step of call c *)
stepped(r) ==
    IF r.c.op \in DataOps /\ r.c.pc = "done"
    THEN [w |-> opFrame(r.w, r.c), c |-> r.c]
    ELSE r

PreOf(w) == [device |-> w.device, isConnected |-> w.isConnected, sessionOpen |-> FALSE]

-----------------------------------------------------------------------------
(* State *)

MaxInFlight == 2
MaxOverlaps == 1
MaxCalls == 4

Slots == 1..MaxInFlight

(* usb.calls are the calls in flight, usb.latch the command each device    *)
(* received last; the rest is history: overlaps counts the calls made      *)
(* while another was in flight, made the calls made                        *)
UsbInitState ==
    [calls |-> [s \in Slots |-> NoCall], latch |-> [d \in Devices |-> NoLatch],
     overlaps |-> 0, made |-> 0]

hookState == [isSupported |-> isSupported, device |-> device, isConnected |-> isConnected,
              opened |-> devOpened, configured |-> devConfigured, claimed |-> devClaimed,
              latch |-> usb.latch]

SetHookState(st) ==
    /\ device' = st.device
    /\ isConnected' = st.isConnected
    /\ devOpened' = st.opened
    /\ devConfigured' = st.configured
    /\ devClaimed' = st.claimed
    /\ UNCHANGED <<isSupported, serial, ws, flasher, app>>

Pre == [device |-> device, isConnected |-> isConnected, sessionOpen |-> sessionOpen]

inFlight == {s \in Slots : usb.calls[s].op # "none"}

freeSlot == CHOOSE s \in Slots \ inFlight : \A t \in Slots \ inFlight : s <= t

(* the calls in flight once call c has taken a step in slot s *)
callsAfter(calls, s, c) ==
    [t \in Slots |-> IF t = s THEN (IF c.pc = "done" THEN NoCall ELSE c)
                     ELSE calls[t]]

sessionAfter(c) ==
    IF c.pc # "done" THEN sessionOpen
    ELSE IF c.op = "connect" THEN (sessionOpen \/ c.outcome = "resolved")
    ELSE IF c.op = "disconnect" THEN FALSE
    ELSE sessionOpen

(* lastCall is the call that returned in the last step, if one did *)
Step(s, r, usb1) ==
    /\ SetHookState(r.w)
    /\ usb' = [usb1 EXCEPT !.calls = callsAfter(usb1.calls, s, r.c), !.latch = r.w.latch]
    /\ lastCall' = IF r.c.pc = "done" THEN r.c ELSE NoCall
    /\ sessionOpen' = sessionAfter(r.c)

(* a function of the hook is called: it runs to its first await.  A call   *)
(* the caller awaits is made when no call is in flight, and no call is     *)
(* made until it has returned.  The calls that come to be in flight        *)
(* together with an earlier one are counted.                               *)
Start(c0, awaited) ==
    LET others == inFlight
        c == [c0 EXCEPT !.awaited = awaited, !.overlapped = others # {}]
        r == stepped(begin(hookState, c))
        calls1 == [t \in Slots |-> IF t \in others
                                   THEN [usb.calls[t] EXCEPT !.overlapped = TRUE]
                                   ELSE usb.calls[t]]
        usb1 == [usb EXCEPT !.calls = calls1,
                            !.overlaps = IF others # {} /\ r.c.pc # "done"
                                         THEN @ + 1 ELSE @,
                            !.made = @ + 1]
    IN /\ Slots \ others # {}
       /\ \A t \in others : ~usb.calls[t].awaited
       /\ awaited => others = {}
       /\ usb1.overlaps <= MaxOverlaps
       /\ usb1.made <= MaxCalls
       /\ Step(freeSlot, r, usb1)

firmware(pattern, n) == [i \in 1..n |-> flashByte(pattern, i - 1)]

-----------------------------------------------------------------------------
(* Inputs *)

ConnectReqs ==
    [pick : Devices,
     failStep : {"none", "requestDevice", "open", "selectConfiguration", "claimInterface"},
     errName : {"NotFoundError", "NetworkError"}]

DisconnectFails == {"none", "releaseInterface", "close"}

Remainders == {0, 1, 44, 255}
Addresses == {0, 255, 65280, 16776960}
Lengths == {q * chunkSize + r : q \in 0..(MaxChunks - 1), r \in Remainders}
               \cup {MaxChunks * chunkSize}
Patterns == {1, 2}

ReadDevs ==
    {[GoodDev EXCEPT !.failAt = f, !.pattern = p] :
        f \in 0..(2 * MaxChunks), p \in Patterns}
    \cup {[GoodDev EXCEPT !.badAt = b, !.badMode = m] :
            b \in 1..MaxChunks, m \in {"short", "nodata"}}
WriteDevs == {[GoodDev EXCEPT !.failAt = f] : f \in 0..MaxChunks}
EraseDevs == {[GoodDev EXCEPT !.failAt = f] : f \in 0..1}

ByteSamples == {0, 15, 23, 24, 32, 64, 194, 239, 255}
IdResponses ==
    {NoData} \cup {DataOf(b) : b \in UNION {[1..n -> ByteSamples] : n \in 0..ReadIdLength}}
DetectDevs == {[GoodDev EXCEPT !.failAt = f, !.idResp = r] : f \in 0..2, r \in IdResponses}

SmallLengths == {0, 1, chunkSize + 1}
SmallReadDevs ==
    {[GoodDev EXCEPT !.failAt = f] : f \in 0..2}
    \cup {[GoodDev EXCEPT !.badAt = 1, !.badMode = "nodata"]}
SmallWriteDevs == {[GoodDev EXCEPT !.failAt = f] : f \in 0..2}
SmallIdResponses == {NoData, DataOf(<<239, 64, 24, 0>>), DataOf(<<194, 32>>)}
SmallDetectDevs ==
    {[GoodDev EXCEPT !.failAt = f, !.idResp = r] : f \in 0..2, r \in SmallIdResponses}

(* the inputs of the calls the caller does not await *)
SharedConnectReqs == [pick : Devices, failStep : {"none"}, errName : {"NetworkError"}]
SharedAddresses == {0, 255}
SharedLengths == {1}
SharedDetectDevs == {[GoodDev EXCEPT !.idResp = DataOf(<<239, 64, 24, 0>>)]}

-----------------------------------------------------------------------------
(* Part 2.  WebSerialAPI: connect, disconnect, write, configure and the    *)
(* read loop.                                                              *)
(*                                                                         *)
(* serial.port, .reader, .writer, .isReading are the fields of the object  *)
(* (0 = null); portOpen, readLock, writeLock are the platform's state of   *)
(* each serial port (the reader or writer that holds the stream's lock);   *)
(* loops are the startReading() invocations that have not returned, each   *)
(* with the reader its pending read() was issued on, and started the ids   *)
(* of all the invocations made; portParams are the parameters each open    *)
(* port was opened with, portInfo what getInfo() returns for each port;    *)
(* events are the CustomEvents dispatched so far; calls are the connect(), *)
(* disconnect() and write() calls in flight, each at the promise it        *)
(* awaits; last is the record of the call that returned or of the step of  *)
(* a read loop taken in the last step.                                     *)

NumPorts == 2
MaxConnects == 2
MaxEvents == 4

Ports == 1..NumPorts
NoPort == 0
NoHandle == 0

SerialEvent(type, detail) == [type |-> type, detail |-> detail]

HexDigitsLower == <<"0", "1", "2", "3", "4", "5", "6", "7",
                    "8", "9", "a", "b", "c", "d", "e", "f">>

(* Number.prototype.toString(16) *)
RECURSIVE toString16(_)
toString16(n) ==
    IF n < 16 THEN HexDigitsLower[n + 1]
    ELSE toString16(n \div 16) \o HexDigitsLower[(n % 16) + 1]

(* the result of port.getInfo(); NoId is a property that is undefined *)
NoId == -1
PortInfo(vendor, product) == [usbVendorId |-> vendor, usbProductId |-> product]
PortInfos == <<PortInfo(6790, 21795), PortInfo(NoId, 21795), PortInfo(NoId, NoId)>>

(* what getInfo() returns for each port, in the k-th choice of the ports *)
portInfoOf(k) == [p \in Ports |-> PortInfos[((p + k) % Len(PortInfos)) + 1]]

(* id?.toString(16) || '????' *)
idText(id) == IF id = NoId THEN "????" ELSE toString16(id)

(* part_004:248 *)
connectionInfo(info) ==
    "115200 baud, 8N1"
        \o (IF info.usbProductId # NoId /\ info.usbProductId # 0
            THEN " (USB " \o idText(info.usbVendorId) \o ":"
                     \o idText(info.usbProductId) \o ")"
            ELSE "")

(* the options of port.open(), part_004:231-237 *)
OpenParams ==
    [baudRate |-> 115200, dataBits |-> 8, stopBits |-> 1,
     parity |-> "none", flowControl |-> "none"]

NoParams ==
    [baudRate |-> 0, dataBits |-> 0, stopBits |-> 0, parity |-> "", flowControl |-> ""]

serialConnectError_noCancelCase(errName, msg) ==
    "Failed to connect to serial device: " \o msg

(* the catch block of connect(), part_004:254-259 *)
serialConnectError(errName, msg) ==
    IF errName = "NotFoundError" THEN "No device selected"
    ELSE "Failed to connect to serial device: " \o msg

SerialUnsupportedMsg ==
    "WebSerial API is not supported in this browser. Please use Chrome, Edge, or other Chromium-based browsers."

SerialResult(outcome, error) == [outcome |-> outcome, error |-> error]

(* the fields of the object, the state of its ports and the events         *)
(* dispatched when a step begins                                           *)
SerialPre(st) ==
    [port |-> st.port, reader |-> st.reader, writer |-> st.writer,
     isReading |-> st.isReading, portOpen |-> st.portOpen, portParams |-> st.portParams,
     readLock |-> st.readLock, writeLock |-> st.writeLock, events |-> st.events]

NoOptions == NoParams

(* the record of a call: its inputs, the state it started from, its        *)
(* outcome, the events it dispatched and whether it started a read loop;   *)
(* of connect(), disconnect() and write() also the promise awaited (pc, on *)
(* port, reader or writer target, and whether it rejects), the number h of *)
(* the reader and writer connect() creates, the port the chooser returns   *)
(* (pick), the statements executed (steps), whether the caller makes no    *)
(* other call until it has returned (awaited) and whether another call was *)
(* in flight during it                                                     *)
SerialNoCall ==
    [op |-> "none", outcome |-> "none", error |-> "", failStep |-> "none", errName |-> "",
     pre |-> [port |-> NoPort, reader |-> NoHandle, writer |-> NoHandle,
              isReading |-> FALSE,
              portOpen |-> [p \in Ports |-> FALSE],
              portParams |-> [p \in Ports |-> NoParams],
              readLock |-> [p \in Ports |-> NoHandle],
              writeLock |-> [p \in Ports |-> NoHandle], events |-> <<>>],
     emitted |-> <<>>, loopStarted |-> FALSE,
     text |-> <<>>, written |-> <<>>, options |-> NoOptions,
     steps |-> <<>>, loop |-> 0, chunk |-> <<>>,
     pc |-> "done", target |-> 0, rejects |-> FALSE, h |-> 0, pick |-> NoPort,
     awaited |-> TRUE, overlapped |-> FALSE]

SerialPending(op, failStep, errName, pick, st0) ==
    [SerialNoCall EXCEPT !.op = op, !.outcome = "pending", !.failStep = failStep,
                         !.errName = errName, !.pick = pick, !.pre = SerialPre(st0),
                         !.pc = "start"]

(* return, throw, await and dispatchEvent in the calls of the transport *)
serialResolve(st, c) ==
    [st |-> st, c |-> [c EXCEPT !.pc = "done", !.outcome = "resolved"]]
serialReject(st, c, msg) ==
    [st |-> st, c |-> [c EXCEPT !.pc = "done", !.outcome = "rejected", !.error = msg]]
serialAwait(st, c, pc, target) ==
    [st |-> st, c |-> [c EXCEPT !.pc = pc, !.target = target, !.steps = Append(@, pc)]]
serialDispatch(r, ev) ==
    [st |-> [r.st EXCEPT !.events = Append(@, ev)],
     c |-> [r.c EXCEPT !.emitted = Append(@, ev)]]

(* startReading up to its first await: the first read() is issued on this.reader *)
startReading(st, id) ==
    IF st.reader = NoHandle THEN st
    ELSE [st EXCEPT !.isReading = TRUE,
                    !.started = @ \cup {id},
                    !.loops = @ \cup {[id |-> id, reader |-> st.reader]}]

(* connect(portId?), part_004:221-260.  The reader and the writer a call   *)
(* creates carry the number of the call.                                   *)

(* part_004:222-228 *)
serialConnectBegin(st0, c0) ==
    LET st == [st0 EXCEPT !.connects = @ + 1]
        c == [c0 EXCEPT !.h = st.connects]
    IN IF ~st.supported THEN serialReject(st, c, SerialUnsupportedMsg)
       ELSE serialAwait(st, c, "requestPort", NoPort)

(* part_004:239-252: getReader, getWriter, startReading and the connect    *)
(* event, on the port this.port refers to now                              *)
serialConnectSetUp(st, c) ==
    LET p == st.port
        st3 == [st EXCEPT !.reader = c.h, !.readLock[p] = c.h]
        st4 == [st3 EXCEPT !.writer = c.h, !.writeLock[p] = c.h]
        st5 == startReading(st4, c.h)
        c5 == [c EXCEPT !.loopStarted = TRUE,
                        !.steps = @ \o <<"getReader", "getWriter", "startReading">>]
    IN IF p = NoPort
       THEN serialReject(st, c, serialConnectError("TypeError", nullRead("readable")))
       ELSE IF ~st.portOpen[p]
       THEN serialReject(st, c, serialConnectError("TypeError", nullRead("getReader")))
       ELSE IF st.readLock[p] # NoHandle
       THEN serialReject(st, [c EXCEPT !.steps = Append(@, "getReader")],
                         serialConnectError("TypeError", "ReadableStream is locked"))
       ELSE IF st.writeLock[p] # NoHandle
       THEN serialReject(st3, [c EXCEPT !.steps = @ \o <<"getReader", "getWriter">>],
                         serialConnectError("TypeError", "WritableStream is locked"))
       ELSE serialResolve(serialDispatch([st |-> st5, c |-> c5],
                              SerialEvent("connect", connectionInfo(st.portInfo[p]))).st,
                          serialDispatch([st |-> st5, c |-> c5],
                              SerialEvent("connect", connectionInfo(st.portInfo[p]))).c)

(* the code after an await of connect(), part_004:228-259; a port that is  *)
(* opened has new streams                                                  *)
serialConnectResume(st, c) ==
    LET t == c.target
        failed == serialConnectError(c.errName, errMessage(c.errName))
        opened == [st EXCEPT !.portOpen[t] = TRUE, !.portParams[t] = OpenParams,
                             !.readLock[t] = NoHandle, !.writeLock[t] = NoHandle]
    IN IF c.pc = "requestPort"
       THEN IF c.failStep = "requestPort" THEN serialReject(st, c, failed)
            ELSE serialAwait([st EXCEPT !.port = c.pick], c, "open", c.pick)
       ELSE IF st.portOpen[t]
            THEN serialReject(st, c, serialConnectError("InvalidStateError",
                                                        "The port is already open."))
       ELSE IF c.failStep = "open" THEN serialReject(st, c, failed)
       ELSE serialConnectSetUp(opened, c)

cancelReads_leavesReadsPending(st, r) == st

(* reader.cancel(): the reads pending on the reader resolve with done, and *)
(* the loops awaiting them break before disconnect() continues             *)
cancelReads(st, r) == [st EXCEPT !.loops = {l \in @ : l.reader # r}]

(* reader.releaseLock(); released collects the readers it was called on *)
releaseReadLock(st, r) ==
    [st EXCEPT !.readLock = [q \in Ports |-> IF @[q] = r THEN NoHandle ELSE @[q]],
               !.released = @ \cup {r}]

releaseWriteLock(st, w) ==
    [st EXCEPT !.writeLock = [q \in Ports |-> IF @[q] = w THEN NoHandle ELSE @[q]]]

disconnectFailed_swallowed(st, c, msg) == serialResolve(st, c)

(* the catch block of disconnect(), part_004:283-286 *)
disconnectFailed(st, c, msg) == serialReject(st, c, "Failed to disconnect: " \o msg)

(* disconnect(), part_004:262-287.  releaseLock() is a synchronous call    *)
(* whose result is awaited; cancel() and close() return promises.  The     *)
(* cancel() of a reader whose lock was released rejects, the close() of a  *)
(* port that is not open rejects, releaseLock() on a released reader or    *)
(* writer does nothing.                                                    *)

(* part_004:278-282 *)
serialDisconnectPort(st, c) ==
    IF st.port # NoPort THEN serialAwait(st, c, "port.close", st.port)
    ELSE serialResolve(
             serialDispatch([st |-> st,
                             c |-> [c EXCEPT !.steps = Append(@, "dispatch disconnect")]],
                            SerialEvent("disconnect", "")).st,
             serialDispatch([st |-> st,
                             c |-> [c EXCEPT !.steps = Append(@, "dispatch disconnect")]],
                            SerialEvent("disconnect", "")).c)

(* part_004:273-276 *)
serialDisconnectWriter(st, c) ==
    IF st.writer = NoHandle THEN serialDisconnectPort(st, c)
    ELSE IF c.failStep = "writerRelease"
    THEN disconnectFailed(st, [c EXCEPT !.steps = Append(@, "writer.releaseLock")],
                          TransferErrMsg)
    ELSE serialAwait(releaseWriteLock(st, st.writer), c, "writer.releaseLock", st.writer)

(* part_004:263-271 *)
serialDisconnectBegin(st0, c0) ==
    LET st == [st0 EXCEPT !.isReading = FALSE]
        c == [c0 EXCEPT !.steps = <<"isReading = false">>]
    IN IF st.reader = NoHandle THEN serialDisconnectWriter(st, c)
       ELSE IF c.failStep = "cancel" \/ st.reader \in st.released
       THEN serialAwait(st, [c EXCEPT !.rejects = TRUE], "reader.cancel", st.reader)
       ELSE serialAwait(cancelReads(st, st.reader), c, "reader.cancel", st.reader)

(* the code after an await of disconnect(), part_004:267-286 *)
serialDisconnectResume(st, c) ==
    LET t == c.target
        closed == [st EXCEPT !.portOpen[t] = FALSE, !.portParams[t] = NoParams,
                             !.port = NoPort]
    IN IF c.pc = "reader.cancel"
       THEN IF c.rejects THEN disconnectFailed(st, c, TransferErrMsg)
            ELSE IF st.reader = NoHandle
            THEN disconnectFailed(st, c, nullRead("releaseLock"))
            ELSE IF c.failStep = "readerRelease"
            THEN disconnectFailed(st, [c EXCEPT !.steps = Append(@, "reader.releaseLock")],
                                  TransferErrMsg)
            ELSE serialAwait(releaseReadLock(st, st.reader), c, "reader.releaseLock",
                             st.reader)
       ELSE IF c.pc = "reader.releaseLock"
       THEN serialDisconnectWriter([st EXCEPT !.reader = NoHandle], c)
       ELSE IF c.pc = "writer.releaseLock"
       THEN serialDisconnectPort([st EXCEPT !.writer = NoHandle], c)
       ELSE IF c.failStep = "close" \/ ~st.portOpen[t]
            THEN disconnectFailed(st, c, TransferErrMsg)
            ELSE serialResolve(
                     serialDispatch([st |-> closed,
                                     c |-> [c EXCEPT !.steps =
                                                Append(@, "dispatch disconnect")]],
                                    SerialEvent("disconnect", "")).st,
                     serialDispatch([st |-> closed,
                                     c |-> [c EXCEPT !.steps =
                                                Append(@, "dispatch disconnect")]],
                                    SerialEvent("disconnect", "")).c)

(* TextDecoder.decode on the bytes the model's devices send *)
decodeByte(b) ==
    IF b = 10 THEN "\n" ELSE IF b = 65 THEN "A" ELSE IF b = 75 THEN "K"
    ELSE IF b = 79 THEN "O" ELSE IF b = 84 THEN "T" ELSE "?"

RECURSIVE decode(_)
decode(bytes) == IF bytes = <<>> THEN "" ELSE decodeByte(Head(bytes)) \o decode(Tail(bytes))

Chunks == {<<79, 75>>, <<65, 84, 10>>}

(* while (this.isReading && this.reader): the next read() goes to the      *)
(* reader the object references now                                        *)
loopContinue(st, l) ==
    IF st.isReading /\ st.reader # NoHandle
    THEN [st EXCEPT !.loops = (@ \ {l}) \cup {[l EXCEPT !.reader = st.reader]}]
    ELSE [st EXCEPT !.loops = @ \ {l}]

loopData_noEvent(st, l, value) == loopContinue(st, l)

(* one iteration of startReading, part_004:320-333, read() resolved with a chunk *)
loopData(st, l, value) ==
    loopContinue([st EXCEPT !.events = Append(@, SerialEvent("data", decode(value)))], l)

(* read() resolved with done: break *)
loopDone(st, l) == [st EXCEPT !.loops = @ \ {l}]

loopError_alwaysEmits(st, l) ==
    [st EXCEPT !.loops = @ \ {l},
               !.events = Append(@, SerialEvent("error", TransferErrMsg))]

(* read() rejected, part_004:334-340 *)
loopError(st, l) ==
    LET st1 == [st EXCEPT !.loops = @ \ {l}]
    IN IF st.isReading
       THEN [st1 EXCEPT !.events = Append(@, SerialEvent("error", TransferErrMsg))]
       ELSE st1

(* TextEncoder.encode on the characters the model's callers send *)
encodeChar(c) ==
    IF c = "\n" THEN <<10>> ELSE IF c = "\r" THEN <<13>> ELSE IF c = "A" THEN <<65>>
    ELSE IF c = "T" THEN <<84>> ELSE <<63>>

RECURSIVE encode(_)
encode(text) == IF text = <<>> THEN <<>> ELSE encodeChar(Head(text)) \o encode(Tail(text))

(* data.endsWith('\n') *)
endsWithNewline(data) == Len(data) > 0 /\ data[Len(data)] = "\n"

dataWithNewline_always(data) == Append(data, "\n")

(* part_004:296 *)
dataWithNewline(data) == IF endsWithNewline(data) THEN data ELSE Append(data, "\n")

(* a write can reach the device only through a writer that still holds the *)
(* lock of an open port                                                    *)
writerLive(st, w) == \E p \in Ports : st.portOpen[p] /\ st.writeLock[p] = w

writerHeld_always(st) == TRUE

(* this.writer, part_004:290 *)
writerHeld(st) == st.writer # NoHandle

WriterWrite(w, bytes) == [writer |-> w, bytes |-> bytes]

NotConnectedMsg == "Not connected to serial device"

(* write(data), part_004:289-301; written lists the writer.write calls     *)
(* made.  writer.write() on a writer that holds no lock of an open port    *)
(* rejects.                                                                *)

(* part_004:290-297, up to the await of writer.write() *)
serialWriteBegin(st, c) ==
    IF ~writerHeld(st) THEN serialReject(st, c, NotConnectedMsg)
    ELSE LET call == WriterWrite(st.writer, encode(dataWithNewline(c.text)))
         IN serialAwait(st,
                        [c EXCEPT !.written = <<call>>,
                                  !.rejects = (c.failStep = "write"
                                                  \/ ~writerLive(st, st.writer))],
                        "writer.write", st.writer)

(* the code after the await of write(), part_004:297-300 *)
serialWriteResume(st, c) ==
    IF c.rejects THEN serialReject(st, c, "Failed to write data: " \o TransferErrMsg)
    ELSE serialResolve(st, c)

(* A call from its first statement to its first await, and from the        *)
(* settling of the promise it awaits to its next await                     *)
serialBegin(st, c) ==
    CASE c.op = "connect" -> serialConnectBegin(st, c)
      [] c.op = "disconnect" -> serialDisconnectBegin(st, c)
      [] c.op = "write" -> serialWriteBegin(st, c)

serialResume(st, c) ==
    CASE c.op = "connect" -> serialConnectResume(st, c)
      [] c.op = "disconnect" -> serialDisconnectResume(st, c)
      [] c.op = "write" -> serialWriteResume(st, c)

portHeld_always(st) == TRUE

(* this.port, part_004:304 *)
portHeld(st) == st.port # NoPort

(* configure(options), part_004:303-311 *)
serialConfigure(st, options) ==
    IF ~portHeld(st)
    THEN [st |-> st, res |-> SerialResult("rejected", NotConnectedMsg)]
    ELSE [st |-> st, res |-> SerialResult("resolved", "")]

(* the record of a configure() call or of a step of a read loop *)
SerialCall(op, failStep, errName, text, options, st0, st1, res, written) ==
    [SerialNoCall EXCEPT
        !.op = op, !.outcome = res.outcome, !.error = res.error, !.failStep = failStep,
        !.errName = errName, !.pre = SerialPre(st0),
        !.emitted = SubSeq(st1.events, Len(st0.events) + 1, Len(st1.events)),
        !.loopStarted = st1.started # st0.started,
        !.text = text, !.written = written, !.options = options]

(* the record of a step of a read loop: the loop, the chunk its read()     *)
(* resolved with, the state the step started from and the events it        *)
(* dispatched                                                              *)
SerialLoopStep(kind, l, value, st0, st1) ==
    [SerialCall(kind, "none", "", <<>>, NoOptions, st0, st1, SerialResult("none", ""), <<>>)
        EXCEPT !.loop = l.id, !.chunk = value]

SerialInitState ==
    [supported |-> TRUE, port |-> NoPort, reader |-> NoHandle, writer |-> NoHandle,
     isReading |-> FALSE,
     portOpen |-> [p \in Ports |-> FALSE],
     portParams |-> [p \in Ports |-> NoParams],
     readLock |-> [p \in Ports |-> NoHandle],
     writeLock |-> [p \in Ports |-> NoHandle],
     portInfo |-> portInfoOf(0),
     loops |-> {}, started |-> {}, released |-> {}, events |-> <<>>, connects |-> 0,
     calls |-> [s \in Slots |-> SerialNoCall], overlaps |-> 0,
     last |-> SerialNoCall]

Texts == {<<>>, <<"\n">>, <<"A", "T">>, <<"A", "T", "\n">>, <<"A", "\n", "T">>,
          <<"A", "T", "\r">>, <<"A", "\n", "\n">>}

(* what the sink does to a chunk: takes it, or fails *)
SerialWriteFails == {"none", "write"}

(* the text of a write() made while another call is at an await, and the   *)
(* chunk the read loop delivers meanwhile                                  *)
SharedTexts == {<<"A", "T">>}

SharedChunks == {<<79, 75>>}

ConfigureOptions ==
    {[baudRate |-> 9600, dataBits |-> 7, stopBits |-> 2,
      parity |-> "even", flowControl |-> "hardware"],
     [baudRate |-> 115200, dataBits |-> 8, stopBits |-> 1,
      parity |-> "none", flowControl |-> "none"]}

SerialConnectReqs ==
    [pick : Ports, failStep : {"none", "requestPort", "open"},
     errName : {"NotFoundError", "NetworkError"}]

(* the inputs of the calls the caller does not await *)
SharedSerialReqs == [pick : Ports, failStep : {"none"}, errName : {"NetworkError"}]

SerialDisconnectFails == {"none", "cancel", "readerRelease", "writerRelease", "close"}

usbUnchanged ==
    UNCHANGED <<isSupported, device, isConnected, devOpened, devConfigured, devClaimed,
                sessionOpen, lastCall, usb, ws, flasher, app>>

(* a read can deliver data only from a reader that still holds the lock of an open port *)
readerLive(st, r) == \E p \in Ports : st.portOpen[p] /\ st.readLock[p] = r

serialInFlight(st) == {s \in Slots : st.calls[s].op # "none"}

serialFreeSlot(st) ==
    CHOOSE s \in Slots \ serialInFlight(st) : \A t \in Slots \ serialInFlight(st) : s <= t

(* the object once call r.c has taken a step in slot s; last is the call   *)
(* if it returned                                                          *)
serialStepped(calls, s, r) ==
    [r.st EXCEPT !.calls = [t \in Slots |->
                               IF t = s
                               THEN (IF r.c.pc = "done" THEN SerialNoCall ELSE r.c)
                               ELSE calls[t]],
                 !.last = IF r.c.pc = "done" THEN r.c ELSE SerialNoCall]

(* A call the caller awaits is made when no call is in flight, and no call *)
(* is made until it has returned.                                          *)
serialMayStart(st, awaited) ==
    /\ Slots \ serialInFlight(st) # {}
    /\ \A t \in serialInFlight(st) : ~st.calls[t].awaited
    /\ awaited => serialInFlight(st) = {}

(* connect(), disconnect() or write() is called on the object: it runs to  *)
(* its first await.  The calls that come to be in flight together with an  *)
(* earlier one are counted.                                                *)
serialStarted(st, c0, awaited) ==
    LET others == serialInFlight(st)
        c == [c0 EXCEPT !.awaited = awaited, !.overlapped = others # {}]
        r == serialBegin(st, c)
        calls1 == [t \in Slots |-> IF t \in others
                                   THEN [st.calls[t] EXCEPT !.overlapped = TRUE]
                                   ELSE st.calls[t]]
        overlaps1 == IF others # {} /\ r.c.pc # "done" THEN st.overlaps + 1
                     ELSE st.overlaps
    IN serialStepped(calls1, serialFreeSlot(st),
                     [st |-> [r.st EXCEPT !.overlaps = overlaps1], c |-> r.c])

(* a promise that call s of the object awaits settles *)
serialSettled(st, s) == serialStepped(st.calls, s, serialResume(st, st.calls[s]))

(* a step of a read loop of the object *)
serialLoopStepped(kind, st, l, value) ==
    LET st1 == CASE kind = "loopData" -> loopData(st, l, value)
                 [] kind = "loopDone" -> loopDone(st, l)
                 [] kind = "loopError" -> loopError(st, l)
    IN [st1 EXCEPT !.last = SerialLoopStep(kind, l, value, st, st1)]

SerialStart(c0, awaited) ==
    /\ serialMayStart(serial, awaited)
    /\ serialStarted(serial, c0, awaited).overlaps <= MaxOverlaps
    /\ serial' = serialStarted(serial, c0, awaited)
    /\ usbUnchanged

SerialConnect(Reqs, awaited) ==
    /\ serial.connects < MaxConnects
    /\ Len(serial.events) < MaxEvents
    /\ \E req \in Reqs :
          SerialStart(SerialPending("connect", req.failStep, req.errName, req.pick, serial),
                      awaited)

SerialDisconnect(Fails, awaited) ==
    /\ Len(serial.events) < MaxEvents
    /\ \E f \in Fails :
          SerialStart(SerialPending("disconnect", f, "", NoPort, serial), awaited)

SerialWrite(Data, Fails, awaited) ==
    \E data \in Data, f \in Fails :
        SerialStart([SerialPending("write", f, "", NoPort, serial) EXCEPT !.text = data],
                    awaited)

(* a promise that connect(), disconnect() or write() awaits settles *)
SerialSettle ==
    /\ Len(serial.events) < MaxEvents
    /\ \E s \in serialInFlight(serial) :
          /\ serial' = serialSettled(serial, s)
          /\ usbUnchanged

(* configure() has no await: it returns in the step it is called in *)
SerialConfigure ==
    /\ \E options \in ConfigureOptions :
          LET r == serialConfigure(serial, options)
          IN serial' = [r.st EXCEPT !.last = SerialCall("configure", "none", "", <<>>,
                                                        options, serial, r.st, r.res,
                                                        <<>>)]
    /\ usbUnchanged

LoopData(Values) ==
    /\ Len(serial.events) < MaxEvents
    /\ \E l \in serial.loops, value \in Values :
          /\ readerLive(serial, l.reader)
          /\ serial' = serialLoopStepped("loopData", serial, l, value)
    /\ usbUnchanged

LoopDone ==
    /\ \E l \in serial.loops : serial' = serialLoopStepped("loopDone", serial, l, <<>>)
    /\ usbUnchanged

LoopError ==
    /\ Len(serial.events) < MaxEvents
    /\ \E l \in serial.loops : serial' = serialLoopStepped("loopError", serial, l, <<>>)
    /\ usbUnchanged

-----------------------------------------------------------------------------
(* Part 3.  parseConnectionError, hardware-utils.ts:206-298.  A message is *)
(* the sequence of its characters, so that toLowerCase() and includes()    *)
(* are computed on the text.                                               *)

UpperLetters ==
    <<"A", "B", "C", "D", "E", "F", "G", "H", "I", "J", "K", "L", "M",
      "N", "O", "P", "Q", "R", "S", "T", "U", "V", "W", "X", "Y", "Z">>
LowerLetters ==
    <<"a", "b", "c", "d", "e", "f", "g", "h", "i", "j", "k", "l", "m",
      "n", "o", "p", "q", "r", "s", "t", "u", "v", "w", "x", "y", "z">>

toLowerCaseChar(c) ==
    IF \E i \in 1..26 : UpperLetters[i] = c
    THEN LowerLetters[CHOOSE i \in 1..26 : UpperLetters[i] = c]
    ELSE c

(* error.message.toLowerCase() *)
toLowerCase(text) == [i \in 1..Len(text) |-> toLowerCaseChar(text[i])]

(* message.includes(pattern) *)
includes(text, pattern) ==
    \E i \in 1..(Len(text) - Len(pattern) + 1) :
        SubSeq(text, i, i + Len(pattern) - 1) = pattern

(* the characters of the messages connect() rejects with *)
chars(msg) ==
    CASE msg = "WebUSB API is not supported in this browser. Please use Chrome, Edge, or other Chromium-based browsers." ->
            <<"W", "e", "b", "U", "S", "B", " ", "A", "P", "I", " ", "i",
              "s", " ", "n", "o", "t", " ", "s", "u", "p", "p", "o", "r",
              "t", "e", "d", " ", "i", "n", " ", "t", "h", "i", "s", " ",
              "b", "r", "o", "w", "s", "e", "r", ".", " ", "P", "l", "e",
              "a", "s", "e", " ", "u", "s", "e", " ", "C", "h", "r", "o",
              "m", "e", ",", " ", "E", "d", "g", "e", ",", " ", "o", "r",
              " ", "o", "t", "h", "e", "r", " ", "C", "h", "r", "o", "m",
              "i", "u", "m", "-", "b", "a", "s", "e", "d", " ", "b", "r",
              "o", "w", "s", "e", "r", "s", ".">>
      [] msg = "No CH341A device selected" ->
            <<"N", "o", " ", "C", "H", "3", "4", "1", "A", " ", "d", "e",
              "v", "i", "c", "e", " ", "s", "e", "l", "e", "c", "t", "e",
              "d">>
      [] msg = "Failed to connect to USB device: Access denied." ->
            <<"F", "a", "i", "l", "e", "d", " ", "t", "o", " ", "c", "o",
              "n", "n", "e", "c", "t", " ", "t", "o", " ", "U", "S", "B",
              " ", "d", "e", "v", "i", "c", "e", ":", " ", "A", "c", "c",
              "e", "s", "s", " ", "d", "e", "n", "i", "e", "d", ".">>
      [] msg = "WebSerial API is not supported in this browser. Please use Chrome, Edge, or other Chromium-based browsers." ->
            <<"W", "e", "b", "S", "e", "r", "i", "a", "l", " ", "A", "P",
              "I", " ", "i", "s", " ", "n", "o", "t", " ", "s", "u", "p",
              "p", "o", "r", "t", "e", "d", " ", "i", "n", " ", "t", "h",
              "i", "s", " ", "b", "r", "o", "w", "s", "e", "r", ".", " ",
              "P", "l", "e", "a", "s", "e", " ", "u", "s", "e", " ", "C",
              "h", "r", "o", "m", "e", ",", " ", "E", "d", "g", "e", ",",
              " ", "o", "r", " ", "o", "t", "h", "e", "r", " ", "C", "h",
              "r", "o", "m", "i", "u", "m", "-", "b", "a", "s", "e", "d",
              " ", "b", "r", "o", "w", "s", "e", "r", "s", ".">>
      [] msg = "No device selected" ->
            <<"N", "o", " ", "d", "e", "v", "i", "c", "e", " ", "s", "e",
              "l", "e", "c", "t", "e", "d">>
      [] msg = "Failed to connect to serial device: Access denied." ->
            <<"F", "a", "i", "l", "e", "d", " ", "t", "o", " ", "c", "o",
              "n", "n", "e", "c", "t", " ", "t", "o", " ", "s", "e", "r",
              "i", "a", "l", " ", "d", "e", "v", "i", "c", "e", ":", " ",
              "A", "c", "c", "e", "s", "s", " ", "d", "e", "n", "i", "e",
              "d", ".">>
      [] msg = "Failed to connect to serial device: The port is already open." ->
            <<"F", "a", "i", "l", "e", "d", " ", "t", "o", " ", "c", "o",
              "n", "n", "e", "c", "t", " ", "t", "o", " ", "s", "e", "r",
              "i", "a", "l", " ", "d", "e", "v", "i", "c", "e", ":", " ",
              "T", "h", "e", " ", "p", "o", "r", "t", " ", "i", "s", " ",
              "a", "l", "r", "e", "a", "d", "y", " ", "o", "p", "e", "n",
              ".">>
      [] OTHER -> <<>>

(* the literals of the includes() tests *)
PatternNoDeviceSelected ==
    <<"n", "o", " ", "d", "e", "v", "i", "c", "e", " ", "s", "e", "l", "e",
      "c", "t", "e", "d">>
PatternNotFoundError ==
    <<"n", "o", "t", "f", "o", "u", "n", "d", "e", "r", "r", "o", "r">>
PatternAccessDenied ==
    <<"a", "c", "c", "e", "s", "s", " ", "d", "e", "n", "i", "e", "d">>
PatternPermissionDenied ==
    <<"p", "e", "r", "m", "i", "s", "s", "i", "o", "n", " ", "d", "e", "n",
      "i", "e", "d">>
PatternFailedToOpen ==
    <<"f", "a", "i", "l", "e", "d", " ", "t", "o", " ", "o", "p", "e", "n">>
PatternDeviceBusy ==
    <<"d", "e", "v", "i", "c", "e", " ", "b", "u", "s", "y">>
PatternNotSupported ==
    <<"n", "o", "t", " ", "s", "u", "p", "p", "o", "r", "t", "e", "d">>
PatternWebUsb ==
    <<"w", "e", "b", "u", "s", "b">>
PatternWebSerial ==
    <<"w", "e", "b", "s", "e", "r", "i", "a", "l">>
PatternChipDetection ==
    <<"c", "h", "i", "p", " ", "d", "e", "t", "e", "c", "t", "i", "o", "n">>
PatternFailedToDetect ==
    <<"f", "a", "i", "l", "e", "d", " ", "t", "o", " ", "d", "e", "t", "e",
      "c", "t">>

HardwareError(message, code, category) ==
    [message |-> message, code |-> code, category |-> category]

parseConnectionError(error) ==
    LET message == toLowerCase(chars(error))
    IN IF includes(message, PatternNoDeviceSelected) \/ includes(message, PatternNotFoundError)
       THEN HardwareError("No device selected", "DEVICE_NOT_SELECTED", "permission")
       ELSE IF includes(message, PatternAccessDenied)
               \/ includes(message, PatternPermissionDenied)
       THEN HardwareError("Permission denied", "PERMISSION_DENIED", "permission")
       ELSE IF includes(message, PatternFailedToOpen) \/ includes(message, PatternDeviceBusy)
       THEN HardwareError("Device busy or in use", "DEVICE_BUSY", "connection")
       ELSE IF includes(message, PatternNotSupported) \/ includes(message, PatternWebUsb)
               \/ includes(message, PatternWebSerial)
       THEN HardwareError("Browser API not supported", "API_NOT_SUPPORTED", "browser")
       ELSE IF includes(message, PatternChipDetection)
               \/ includes(message, PatternFailedToDetect)
       THEN HardwareError("Hardware detection failed", "DETECTION_FAILED", "hardware")
       ELSE HardwareError(error, "UNKNOWN_ERROR", "connection")

-----------------------------------------------------------------------------
(* Part 4.  useWebSocket, use-websocket.ts:13-177.                         *)
(*                                                                         *)
(* ws.wsRef and ws.reconnectTimeoutRef are the two refs of the hook        *)
(* (0 = null), ws.isConnected its state; readyState is the platform's      *)
(* state of every WebSocket created so far, timers the timeouts that are   *)
(* set and have neither fired nor been cleared.  stopped and createdAtStop *)
(* are history: disconnect() was called and connect() has not been called  *)
(* by the component since, and the number of sockets created by then.      *)

MaxSockets == 3
MaxTimers == 3

Sockets == 1..MaxSockets
NoSocket == 0
NoTimer == 0

WsInitState ==
    [wsRef |-> NoSocket, reconnectTimeoutRef |-> NoTimer, isConnected |-> FALSE,
     readyState |-> [s \in Sockets |-> "NONE"], created |-> 0,
     timers |-> {}, timersSet |-> 0,
     stopped |-> FALSE, createdAtStop |-> 0]

(* connect(), use-websocket.ts:20-105: returns only when the referenced    *)
(* socket is OPEN, otherwise creates a socket and references it            *)
wsConnect(st) ==
    IF st.wsRef # NoSocket /\ st.readyState[st.wsRef] = "OPEN"
    THEN st
    ELSE LET s == st.created + 1
         IN [st EXCEPT !.created = s, !.readyState[s] = "CONNECTING", !.wsRef = s]

(* window.clearTimeout(reconnectTimeoutRef.current) *)
clearReconnectTimeout(st) ==
    IF st.reconnectTimeoutRef # NoTimer
    THEN [st EXCEPT !.timers = @ \ {st.reconnectTimeoutRef},
                    !.reconnectTimeoutRef = NoTimer]
    ELSE st

(* WebSocket.close(): the close event is delivered later *)
socketClose(state) == IF state \in {"CONNECTING", "OPEN"} THEN "CLOSING" ELSE state

(* disconnect(), use-websocket.ts:107-119 *)
wsDisconnect(st) ==
    LET st1 == clearReconnectTimeout(st)
        st2 == IF st1.wsRef # NoSocket
               THEN [st1 EXCEPT !.readyState[st1.wsRef] = socketClose(@),
                                !.wsRef = NoSocket]
               ELSE st1
    IN [st2 EXCEPT !.isConnected = FALSE]

(* ws.onopen, use-websocket.ts:32-41 *)
wsOnOpen(st, s) ==
    clearReconnectTimeout([st EXCEPT !.readyState[s] = "OPEN", !.isConnected = TRUE])

(* ws.onclose, use-websocket.ts:88-97 *)
wsOnClose(st, s) ==
    LET t == st.timersSet + 1
    IN [st EXCEPT !.readyState[s] = "CLOSED",
                  !.isConnected = FALSE,
                  !.wsRef = NoSocket,
                  !.timersSet = t,
                  !.timers = @ \cup {t},
                  !.reconnectTimeoutRef = t]

(* the callback of the reconnect timeout, use-websocket.ts:94-96 *)
wsTimerFired(st, t) == wsConnect([st EXCEPT !.timers = @ \ {t}])

wsRest ==
    UNCHANGED <<isSupported, device, isConnected, devOpened, devConfigured, devClaimed,
                sessionOpen, lastCall, usb, serial, flasher, app>>

(* connect() called by the mount effect or by a component *)
WsConnect ==
    /\ ws.created < MaxSockets
    /\ ws' = [wsConnect(ws) EXCEPT !.stopped = FALSE]
    /\ wsRest

(* disconnect() called by a component or by the cleanup of the mount effect *)
WsDisconnect ==
    /\ LET st == wsDisconnect(ws)
       IN ws' = [st EXCEPT !.stopped = TRUE, !.createdAtStop = st.created]
    /\ wsRest

WsOnOpen ==
    /\ \E s \in Sockets :
          /\ ws.readyState[s] = "CONNECTING"
          /\ ws' = wsOnOpen(ws, s)
    /\ wsRest

(* the close event of a socket: the connection failed, the server closed   *)
(* it, or close() was called on it                                         *)
WsOnClose ==
    /\ ws.timersSet < MaxTimers
    /\ \E s \in Sockets :
          /\ ws.readyState[s] \in {"CONNECTING", "OPEN", "CLOSING"}
          /\ ws' = wsOnClose(ws, s)
    /\ wsRest

WsTimerFired ==
    /\ ws.created < MaxSockets
    /\ \E t \in ws.timers : ws' = wsTimerFired(ws, t)
    /\ wsRest

-----------------------------------------------------------------------------
(* Part 5.  SpiFlasher, spi-flasher.tsx:21-266.                            *)
(*                                                                         *)
(* The component calls useWebUSB() in its body, so every render runs       *)
(* webusb.ts:15-18 again: the functions handed to the handlers of that     *)
(* render close over a new pair 'device = null, isConnected = false'.  In  *)
(* FlasherSpec the variables device and isConnected are the pair of the    *)
(* latest render; the devices of the platform keep their state.  A handler *)
(* is async: it runs to its next await and goes on when the promise        *)
(* settles, with the functions and the state of the render it was called   *)
(* in.  flasher.runs are the handler runs that have not returned, each     *)
(* with the closure its functions use (env: Latest, or one of              *)
(* flasher.closures, the pairs of earlier renders still in use), the       *)
(* promise it awaits (pc), the call of the hook it awaits (call) and the   *)
(* file and the inputs of its render.  flasher.isConnected is the value    *)
(* the component destructured at the latest render, detectedChip,          *)
(* firmwareFile and isOperationInProgress its React state (a file is the   *)
(* number of its bytes), toastSubscribed says that toast() sets state of   *)
(* the component, flasher.overlaps counts the handler runs started while   *)
(* another had not returned, flasher.last is the handler run that returned *)
(* in the last step.  What the platform does to an operation (dev) is      *)
(* drawn when the operation is called.  A run is alone when no handler is  *)
(* called before it returns; the file input and the renders are not        *)
(* handlers runs wait for.                                                 *)

NoFile == -1

(* the closure variables as useWebUSB() creates them, webusb.ts:17-18 *)
useWebUSB == [device |-> NoDevice, isConnected |-> FALSE]

Latest == 0

NotCalled == [outcome |-> "none", error |-> "", log |-> <<>>, length |-> 0]

(* called: the handler reached its data operation; length is the number of *)
(* bytes it asked the hook to read or write                                *)
HandlerRun(handler, called, res) ==
    [handler |-> handler, called |-> called, length |-> res.length,
     outcome |-> res.outcome, error |-> res.error, log |-> res.log]

NoHandlerRun == HandlerRun("none", FALSE, NotCalled)

NoRun ==
    [handler |-> "none", pc |-> "done", env |-> Latest, address |-> 0, length |-> 0,
     file |-> NoFile, alone |-> TRUE, call |-> NoCall]

Run(handler, address, length, file, alone) ==
    [NoRun EXCEPT !.handler = handler, !.pc = "start", !.address = address,
                  !.length = length, !.file = file, !.alone = alone]

FlasherInitState ==
    [detectedChip |-> NoChip, firmwareFile |-> NoFile,
     isConnected |-> useWebUSB.isConnected, isOperationInProgress |-> FALSE,
     toastSubscribed |-> TRUE, overlaps |-> 0,
     runs |-> [s \in Slots |-> NoRun], closures |-> [e \in Slots |-> useWebUSB],
     last |-> NoHandlerRun]

flasherInFlight(fl) == {s \in Slots : fl.runs[s].handler # "none"}

flasherFreeSlot(fl) ==
    CHOOSE s \in Slots \ flasherInFlight(fl) : \A t \in Slots \ flasherInFlight(fl) : s <= t

(* the hook as the functions of closure e see it *)
closureState(st, fl, e) ==
    IF e = Latest THEN st
    ELSE [st EXCEPT !.device = fl.closures[e].device,
                    !.isConnected = fl.closures[e].isConnected]

(* a function of closure e has taken a step that left the hook as w *)
closureStepped(st, fl, e, w) ==
    IF e = Latest THEN [st |-> w, fl |-> fl]
    ELSE [st |-> [w EXCEPT !.device = st.device, !.isConnected = st.isConnected],
          fl |-> [fl EXCEPT !.closures[e] = [device |-> w.device,
                                             isConnected |-> w.isConnected]]]

(* a state update makes the component render again: useWebUSB() is called  *)
(* again and the handlers of the new render use its closure; the runs in   *)
(* flight keep the closure of their render                                 *)
rendered(st, fl) ==
    LET users == {s \in flasherInFlight(fl) : fl.runs[s].env = Latest}
        kept == {fl.runs[s].env : s \in flasherInFlight(fl)} \ {Latest}
        e == CHOOSE x \in Slots \ kept : \A y \in Slots \ kept : x <= y
    IN [st |-> [st EXCEPT !.device = useWebUSB.device, !.isConnected = useWebUSB.isConnected],
        fl |-> IF users = {} THEN [fl EXCEPT !.isConnected = useWebUSB.isConnected]
               ELSE [fl EXCEPT !.isConnected = useWebUSB.isConnected,
                               !.runs = [s \in Slots |->
                                            IF s \in users THEN [@[s] EXCEPT !.env = e]
                                            ELSE @[s]],
                               !.closures[e] = [device |-> st.device,
                                                isConnected |-> st.isConnected]]]

(* toast(): use-toast is not part of the sources; a toast whose hook keeps *)
(* its list in the state of the component renders it                       *)
toasted(st, fl) == IF fl.toastSubscribed THEN rendered(st, fl) ELSE [st |-> st, fl |-> fl]

(* a handler is called: its run takes slot s *)
started(fl, s, run) ==
    [fl EXCEPT !.runs[s] = run,
               !.overlaps = IF flasherInFlight(fl) = {} THEN @ ELSE @ + 1]

(* run s has returned; a closure no run uses is dropped *)
returned(fl, s, called, res) ==
    LET runs1 == [fl.runs EXCEPT ![s] = NoRun]
        kept == {runs1[t].env : t \in Slots}
    IN [fl EXCEPT !.runs = runs1,
                  !.closures = [e \in Slots |-> IF e \in kept THEN @[e] ELSE useWebUSB],
                  !.last = HandlerRun(fl.runs[s].handler, called, res)]

(* run s awaits the promise pc *)
awaiting(st, fl, s, pc, c) ==
    [st |-> st,
     fl |-> [fl EXCEPT !.runs[s].pc = pc, !.runs[s].call = c, !.last = NoHandlerRun]]

(* the state set once the operation has returned, the toast and the        *)
(* finally block: spi-flasher.tsx:58-75, 97-114, 137-153, 175-191, 214-252 *)
handlerEnd(st, fl, s, c) ==
    LET chip == IF fl.runs[s].handler = "handleDetectChip" /\ c.outcome = "resolved"
                THEN c.chip
                ELSE fl.detectedChip
    IN rendered(st, returned([fl EXCEPT !.isOperationInProgress = FALSE,
                                        !.detectedChip = chip],
                             s, TRUE, c))

(* the handler calls its operation, a function of the closure of its       *)
(* render, and awaits it                                                   *)
callOperation(st, fl, s, c0) ==
    LET e == fl.runs[s].env
        w == closureState(st, fl, e)
        r == stepped(begin(w, c0))
        p == closureStepped(st, fl, e, r.w)
    IN IF r.c.pc = "done" THEN handlerEnd(p.st, p.fl, s, r.c)
       ELSE awaiting(p.st, p.fl, s, "operation", r.c)

(* handleDetectChip, spi-flasher.tsx:53-57 *)
detectCalled(st, fl, s, dev) ==
    LET r == callOperation(st, [fl EXCEPT !.isOperationInProgress = TRUE], s,
                           Call("detectChip", 0, 0, <<>>, FALSE, dev, NoReq, NoPre))
    IN rendered(r.st, r.fl)

(* handleDetectChip after a step r of its connect(), spi-flasher.tsx:39-51 *)
connectStepped(st, fl, s, r, dev) ==
    LET p == closureStepped(st, fl, fl.runs[s].env, r.w)
    IN IF r.c.pc # "done" THEN awaiting(p.st, p.fl, s, "connect", r.c)
       ELSE IF r.c.outcome = "rejected" THEN toasted(p.st, returned(p.fl, s, FALSE, r.c))
       ELSE detectCalled(p.st, p.fl, s, dev)

(* handleDetectChip, spi-flasher.tsx:36-39, to its first await *)
handleDetectChip(st, fl, s, req, dev, alone) ==
    LET fl1 == started(fl, s, Run("handleDetectChip", 0, 0, NoFile, alone))
    IN IF fl.isConnected THEN detectCalled(st, fl1, s, dev)
       ELSE connectStepped(st, fl1, s,
                           begin(st, Call("connect", 0, 0, <<>>, FALSE, GoodDev, req,
                                          NoPre)),
                           dev)

(* handleReadChip, spi-flasher.tsx:78-93, to its first await *)
handleReadChip(st, fl, s, address, length, dev, alone) ==
    LET fl1 == started(fl, s, Run("handleReadChip", address, length, NoFile, alone))
        r == callOperation(st, [fl1 EXCEPT !.isOperationInProgress = TRUE], s,
                           Call("readData", address, length, <<>>, TRUE, dev, NoReq, NoPre))
    IN IF fl.detectedChip = NoChip THEN toasted(st, returned(fl1, s, FALSE, NotCalled))
       ELSE rendered(r.st, r.fl)

(* handleWriteChip, spi-flasher.tsx:117-132, to the await of arrayBuffer() *)
handleWriteChip(st, fl, s, address, alone) ==
    LET fl1 == started(fl, s, Run("handleWriteChip", address, fl.firmwareFile,
                                  fl.firmwareFile, alone))
        r == awaiting(st, [fl1 EXCEPT !.isOperationInProgress = TRUE], s, "arrayBuffer",
                      NoCall)
    IN IF fl.detectedChip = NoChip \/ fl.firmwareFile = NoFile
       THEN toasted(st, returned(fl1, s, FALSE, NotCalled))
       ELSE rendered(r.st, r.fl)

(* handleEraseChip, spi-flasher.tsx:156-171, to its first await *)
handleEraseChip(st, fl, s, dev, alone) ==
    LET fl1 == started(fl, s, Run("handleEraseChip", 0, 0, NoFile, alone))
        r == callOperation(st, [fl1 EXCEPT !.isOperationInProgress = TRUE], s,
                           Call("eraseChip", 0, 0, <<>>, TRUE, dev, NoReq, NoPre))
    IN IF fl.detectedChip = NoChip THEN toasted(st, returned(fl1, s, FALSE, NotCalled))
       ELSE rendered(r.st, r.fl)

(* handleVerifyChip, spi-flasher.tsx:194-209, to the await of arrayBuffer() *)
handleVerifyChip(st, fl, s, address, alone) ==
    LET fl1 == started(fl, s, Run("handleVerifyChip", address, fl.firmwareFile,
                                  fl.firmwareFile, alone))
        r == awaiting(st, [fl1 EXCEPT !.isOperationInProgress = TRUE], s, "arrayBuffer",
                      NoCall)
    IN IF fl.detectedChip = NoChip \/ fl.firmwareFile = NoFile
       THEN toasted(st, returned(fl1, s, FALSE, NotCalled))
       ELSE rendered(r.st, r.fl)

(* the call that follows the await of arrayBuffer(): writeData with the    *)
(* bytes, readData with the byte length of the file of the handler's       *)
(* render, spi-flasher.tsx:133, 210                                        *)
fileOperation(run, dev) ==
    IF run.handler = "handleWriteChip"
    THEN Call("writeData", run.address, run.file, firmware(1, run.file), TRUE, dev, NoReq,
              NoPre)
    ELSE Call("readData", run.address, run.file, <<>>, TRUE, dev, NoReq, NoPre)

progressCalls(log) == Cardinality({i \in 1..Len(log) : log[i].kind = "progress"})

(* the promise run s awaits settles: the handler runs to its next await    *)
(* or to its end; a progress callback sets state (setProgress); dev is     *)
(* what the platform does to the operation the step calls                  *)
handlerResume(st, fl, s, dev) ==
    LET run == fl.runs[s]
        w == closureState(st, fl, run.env)
        r == stepped(resume(w, run.call))
        p == closureStepped(st, fl, run.env, r.w)
        a == awaiting(p.st, p.fl, s, "operation", r.c)
    IN CASE run.pc = "connect" -> connectStepped(st, fl, s, resume(w, run.call), dev)
         [] run.pc = "arrayBuffer" -> callOperation(st, fl, s, fileOperation(run, dev))
         [] run.pc = "operation" ->
               IF r.c.pc = "done" THEN handlerEnd(p.st, p.fl, s, r.c)
               ELSE IF progressCalls(r.c.log) > progressCalls(run.call.log)
               THEN rendered(a.st, a.fl)
               ELSE a

(* handleFileSelect, spi-flasher.tsx:260-266 *)
handleFileSelect(st, fl, size) ==
    rendered(st, [fl EXCEPT !.firmwareFile = size,
                            !.last = HandlerRun("handleFileSelect", FALSE, NotCalled)])

SetFlasherState(r) ==
    /\ flasher' = r.fl
    /\ device' = r.st.device
    /\ isConnected' = r.st.isConnected
    /\ devOpened' = r.st.opened
    /\ devConfigured' = r.st.configured
    /\ devClaimed' = r.st.claimed
    /\ usb' = [usb EXCEPT !.latch = r.st.latch]
    /\ UNCHANGED <<isSupported, sessionOpen, lastCall, serial, ws, app>>

(* The buttons: Detect is disabled while isOperationInProgress             *)
(* (spi-flasher.tsx:358); Read, Write, Erase and Verify are rendered once  *)
(* a chip is detected and disabled while isOperationInProgress, Write and  *)
(* Verify also without a file (spi-flasher.tsx:367, 402, 410, 418, 426);   *)
(* the file input is never disabled (spi-flasher.tsx:468-474).  A handler  *)
(* is called alone, with any input, or with an input of the small sets     *)
(* while another run that is not alone has not returned.                   *)

(* the inputs of the handlers: a chooser and a connect() that goes through *)
(* or fails at one of its steps, a programmer that answers the identify    *)
(* command or not, files of one byte and of more than a chunk              *)
FlasherConnectReqs ==
    {r \in ConnectReqs :
        \/ r.failStep \in {"none", "claimInterface"} /\ r.errName = "NetworkError"
        \/ r.failStep \in {"requestDevice", "selectConfiguration"}
              /\ r.errName = "NotFoundError"
        \/ r.failStep = "open"}

FlasherDetectDevs ==
    {[GoodDev EXCEPT !.failAt = f, !.idResp = r] :
        f \in 0..1, r \in {NoData, DataOf(<<239, 64, 24, 0>>)}}

FileSizes == {1, chunkSize + 1}

flasherMayStart(alone) ==
    /\ Slots \ flasherInFlight(flasher) # {}
    /\ \A s \in flasherInFlight(flasher) : ~flasher.runs[s].alone
    /\ alone => flasherInFlight(flasher) = {}
    /\ flasherInFlight(flasher) # {} => flasher.overlaps < MaxOverlaps

HandleDetectChip(Reqs, alone) ==
    /\ ~flasher.isOperationInProgress
    /\ flasherMayStart(alone)
    /\ \E req \in Reqs,
          dev \in IF flasher.isConnected /\ alone THEN FlasherDetectDevs ELSE SharedDetectDevs :
          SetFlasherState(handleDetectChip(hookState, flasher, flasherFreeSlot(flasher),
                                           req, dev, alone))

HandleReadChip(Sizes, Devs, alone) ==
    /\ flasher.detectedChip # NoChip /\ ~flasher.isOperationInProgress
    /\ flasherMayStart(alone)
    /\ \E length \in Sizes, dev \in Devs :
          SetFlasherState(handleReadChip(hookState, flasher, flasherFreeSlot(flasher),
                                         0, length, dev, alone))

HandleWriteChip(alone) ==
    /\ flasher.detectedChip # NoChip /\ ~flasher.isOperationInProgress
    /\ flasher.firmwareFile # NoFile
    /\ flasherMayStart(alone)
    /\ SetFlasherState(handleWriteChip(hookState, flasher, flasherFreeSlot(flasher), 0,
                                       alone))

HandleEraseChip(Devs, alone) ==
    /\ flasher.detectedChip # NoChip /\ ~flasher.isOperationInProgress
    /\ flasherMayStart(alone)
    /\ \E dev \in Devs :
          SetFlasherState(handleEraseChip(hookState, flasher, flasherFreeSlot(flasher),
                                          dev, alone))

HandleVerifyChip(alone) ==
    /\ flasher.detectedChip # NoChip /\ ~flasher.isOperationInProgress
    /\ flasher.firmwareFile # NoFile
    /\ flasherMayStart(alone)
    /\ SetFlasherState(handleVerifyChip(hookState, flasher, flasherFreeSlot(flasher), 0,
                                        alone))

HandleFileSelect ==
    \E size \in FileSizes :
        LET r == handleFileSelect(hookState, flasher, size)
        IN SetFlasherState(r)

(* what the platform may do to the operation run calls when the promise it *)
(* awaits settles                                                          *)
settleDevs(run) ==
    IF run.pc = "connect" /\ run.call.pc = "claimInterface"
    THEN (IF run.alone THEN FlasherDetectDevs ELSE SharedDetectDevs)
    ELSE IF ~run.alone THEN {GoodDev}
    ELSE IF run.pc = "arrayBuffer" /\ run.handler = "handleWriteChip" THEN SmallWriteDevs
    ELSE IF run.pc = "arrayBuffer" THEN SmallReadDevs
    ELSE {GoodDev}

(* a promise a handler run awaits settles: a platform promise of the call  *)
(* of the hook it awaits, or the read of the file                          *)
FlasherSettle ==
    \E s \in flasherInFlight(flasher) :
        \E dev \in settleDevs(flasher.runs[s]) :
            SetFlasherState(handlerResume(hookState, flasher, s, dev))

(* a render caused by anything else (the parent, a toast of another        *)
(* component)                                                              *)
FlasherRender ==
    LET r == rendered(hookState, [flasher EXCEPT !.last = NoHandlerRun])
    IN SetFlasherState(r)

-----------------------------------------------------------------------------
(* Part 6.  useSerial, use-serial.ts:10-167, and the two components that   *)
(* call it: TopBar (topbar.tsx:82-112) and SerialConsole (part_000:242).   *)
(*                                                                         *)
(* The mount effect of every useSerial() call creates a WebSerialAPI of    *)
(* its own and listens to the events of that object only.  app.topbar and  *)
(* app.console are the two hooks: api is the object (a record of Part 2,   *)
(* with its calls in flight and its read loops), isConnected the React     *)
(* state of the hook.  app.isConnecting is the state of the top bar,       *)
(* app.last the handler run that returned in the last step.                *)

(* the hook after its mount effect, use-serial.ts:11-20 *)
useSerial == [api |-> SerialInitState, isConnected |-> FALSE]

(* handleConnect and handleDisconnect, use-serial.ts:26-43, applied to the *)
(* events the object dispatched                                            *)
RECURSIVE listen(_, _)
listen(connected, events) ==
    IF events = <<>> THEN connected
    ELSE listen(IF Head(events).type = "connect" THEN TRUE
                ELSE IF Head(events).type = "disconnect" THEN FALSE
                ELSE connected,
                Tail(events))

emittedBy(st0, st1) == SubSeq(st1.events, Len(st0.events) + 1, Len(st1.events))

(* the hook once its object has taken a step to api1: the listeners have   *)
(* run on the events the step dispatched, use-serial.ts:60-64              *)
heard(h, api1) ==
    [api |-> api1, isConnected |-> listen(h.isConnected, emittedBy(h.api, api1))]

(* connect(portId?), use-serial.ts:86-97, up to the await of the call *)
hookConnect(h, req) ==
    heard(h, serialStarted(h.api, SerialPending("connect", req.failStep, req.errName,
                                                req.pick, h.api), FALSE))

(* disconnect(), use-serial.ts:107-111, up to the await of the call *)
hookDisconnect(h, failStep) ==
    heard(h, serialStarted(h.api, SerialPending("disconnect", failStep, "", NoPort, h.api),
                           FALSE))

(* sendData(data), use-serial.ts:121-127, past its guard, up to the await  *)
(* of the call                                                             *)
hookSendData(h, data, fail) ==
    heard(h, serialStarted(h.api,
                           [SerialPending("write", IF fail THEN "write" ELSE "none", "",
                                          NoPort, h.api) EXCEPT !.text = data],
                           FALSE))

Whitespace == {" ", "\n", "\r", "\t"}

(* !command.trim(), part_000:282 *)
isBlank(command) == \A i \in 1..Len(command) : command[i] \in Whitespace

NotSent == [res |-> SerialResult("none", ""), written |-> <<>>]

(* handleConnect of the top bar, topbar.tsx:88-100, up to the await of the *)
(* call of the hook                                                        *)
topbarHandleConnect(h, req, failStep) ==
    IF h.isConnected THEN hookDisconnect(h, failStep) ELSE hookConnect(h, req)

(* handleSendCommand of the console, part_000:281-289, up to the await of  *)
(* sendData                                                                *)
consoleHandleSendCommand(h, command, fail) ==
    IF isBlank(command) \/ ~h.isConnected THEN h ELSE hookSendData(h, command, fail)

(* what sendData returns to the console for the call c of the object that  *)
(* has returned, use-serial.ts:128-130                                     *)
sendDataResult(c) ==
    IF c.outcome = "rejected"
    THEN [res |-> SerialResult("rejected", "Failed to send data: Error: " \o c.error),
          written |-> c.written]
    ELSE [res |-> SerialResult(c.outcome, ""), written |-> c.written]

(* the toast connect() and disconnect() of the hook show for a call that   *)
(* rejected, use-serial.ts:98-104, 112-118                                 *)
hookToast(c) ==
    IF c.outcome # "rejected" THEN ""
    ELSE IF c.op = "connect" THEN "Failed to connect: Error: " \o c.error
    ELSE "Failed to disconnect: Error: " \o c.error

(* the record of a handler run: sent says that a command that is not blank *)
(* was submitted, toast is the description of the toast the hook showed    *)
AppRun(handler, command, sent, r, toast, topbar) ==
    [handler |-> handler, command |-> command, sent |-> sent,
     outcome |-> r.res.outcome, error |-> r.res.error, written |-> r.written,
     toast |-> toast,
     topbarConnected |-> topbar.isConnected, topbarWriter |-> topbar.api.writer]

NoAppRun == AppRun("none", <<>>, FALSE, NotSent, "", useSerial)

AppInitState ==
    [topbar |-> useSerial, console |-> useSerial, isConnecting |-> FALSE, last |-> NoAppRun]

AppHooks == {"topbar", "console"}

(* the application once the object of hook k has taken a step that made    *)
(* the hook h: a call of the object that returned ends the handler that    *)
(* awaits it (topbar.tsx:91, 101-105; part_000:290-299)                    *)
appStepped(ap, k, h) ==
    LET c == h.api.last
        ended == c.op \in {"connect", "disconnect", "write"}
        ap1 == [ap EXCEPT ![k] = h]
    IN IF ~ended THEN [ap1 EXCEPT !.last = NoAppRun]
       ELSE IF k = "topbar"
       THEN [ap1 EXCEPT !.isConnecting = IF c.op = "connect" THEN FALSE ELSE @,
                        !.last = AppRun("topbar.handleConnect", <<>>, TRUE,
                                        [res |-> SerialResult("resolved", ""),
                                         written |-> <<>>],
                                        hookToast(c), h)]
       ELSE [ap1 EXCEPT !.last = AppRun("console.handleSendCommand", c.text, TRUE,
                                        sendDataResult(c), "", ap.topbar)]

appRest ==
    UNCHANGED <<isSupported, device, isConnected, devOpened, devConfigured, devClaimed,
                sessionOpen, lastCall, usb, serial, ws, flasher>>

(* no call of the object of the top bar is at an await; a click made while *)
(* one is takes its inputs from the small sets                             *)
appAlone == serialInFlight(app.topbar.api) = {}

(* a click on the connect button, which is disabled while isConnecting or  *)
(* without WebSerial (topbar.tsx:187); the connect branch sets              *)
(* isConnecting (topbar.tsx:93)                                            *)
TopBarHandleConnect ==
    /\ ~app.isConnecting
    /\ app.topbar.api.supported
    /\ app.topbar.isConnected \/ app.topbar.api.connects < MaxConnects
    /\ Len(app.topbar.api.events) < MaxEvents
    /\ serialMayStart(app.topbar.api, FALSE)
    /\ \E req \in IF appAlone THEN SerialConnectReqs ELSE SharedSerialReqs,
          f \in IF appAlone THEN SerialDisconnectFails ELSE {"none"} :
          LET h == topbarHandleConnect(app.topbar, req, f)
              ap == [app EXCEPT !.isConnecting = ~app.topbar.isConnected]
          IN /\ h.api.overlaps <= MaxOverlaps
             /\ app' = appStepped(ap, "topbar", h)
    /\ appRest

(* handleRefreshPorts, topbar.tsx:109-112; the button is rendered while    *)
(* the top bar is not connected (topbar.tsx:198).  Reloading the page      *)
(* closes its ports and mounts every component anew.                       *)
TopBarHandleRefreshPorts ==
    /\ ~app.topbar.isConnected
    /\ app' = [AppInitState EXCEPT
                  !.last = AppRun("topbar.handleRefreshPorts", <<>>, FALSE, NotSent, "",
                                  useSerial)]
    /\ appRest

(* the command line of the console is submitted *)
ConsoleHandleSendCommand ==
    /\ serialMayStart(app.console.api, FALSE)
    /\ \E command \in Texts, fail \in BOOLEAN :
          LET h == consoleHandleSendCommand(app.console, command, fail)
              ap == appStepped(app, "console", h)
          IN /\ h.api.overlaps <= MaxOverlaps
             /\ app' = IF h = app.console
                       THEN [ap EXCEPT !.last = AppRun("console.handleSendCommand",
                                                       command, ~isBlank(command),
                                                       NotSent, "", app.topbar)]
                       ELSE ap
    /\ appRest

(* a promise that a call of one of the two objects awaits settles *)
AppSettle ==
    /\ \E k \in AppHooks :
          /\ Len(app[k].api.events) < MaxEvents
          /\ \E s \in serialInFlight(app[k].api) :
                app' = appStepped(app, k, heard(app[k], serialSettled(app[k].api, s)))
    /\ appRest

(* the steps of the read loops of the two objects, part_004:313-341; the   *)
(* listeners of the hook log the data and show the error                   *)
AppLoopData ==
    /\ \E k \in AppHooks :
          /\ Len(app[k].api.events) < MaxEvents
          /\ \E l \in app[k].api.loops, value \in SharedChunks :
                /\ readerLive(app[k].api, l.reader)
                /\ app' = appStepped(app, k,
                              heard(app[k],
                                    serialLoopStepped("loopData", app[k].api, l, value)))
    /\ appRest

AppLoopDone ==
    /\ \E k \in AppHooks :
          \E l \in app[k].api.loops :
              app' = appStepped(app, k,
                         heard(app[k], serialLoopStepped("loopDone", app[k].api, l, <<>>)))
    /\ appRest

AppLoopError ==
    /\ \E k \in AppHooks :
          /\ Len(app[k].api.events) < MaxEvents
          /\ \E l \in app[k].api.loops :
                app' = appStepped(app, k,
                           heard(app[k],
                                 serialLoopStepped("loopError", app[k].api, l, <<>>)))
    /\ appRest

-----------------------------------------------------------------------------
(* Actions: a call of each function of the hook, which runs it to its    *)
(* first await, and the settling of a promise a call awaits, which runs    *)
(* the call to its next await                                              *)

Connect(Reqs, alone) ==
    \E req \in Reqs :
        Start(Call("connect", 0, 0, <<>>, FALSE, GoodDev, req, Pre), alone)

Disconnect(Fails, alone) ==
    \E f \in Fails :
        Start(Call("disconnect", 0, 0, <<>>, FALSE, GoodDev,
                   [NoReq EXCEPT !.failStep = f], Pre), alone)

DetectChip(Devs, alone) ==
    \E dev \in Devs :
        Start(Call("detectChip", 0, 0, <<>>, FALSE, dev, NoReq, Pre), alone)

ReadData(Addrs, Lens, Cbs, Devs, alone) ==
    \E address \in Addrs, length \in Lens, hasCb \in Cbs, dev \in Devs :
        Start(Call("readData", address, length, <<>>, hasCb, dev, NoReq, Pre), alone)

WriteData(Addrs, Lens, Pats, Cbs, Devs, alone) ==
    \E address \in Addrs, n \in Lens, p \in Pats, hasCb \in Cbs, dev \in Devs :
        Start(Call("writeData", address, n, firmware(p, n), hasCb, dev, NoReq, Pre), alone)

EraseChip(Cbs, Devs, alone) ==
    \E hasCb \in Cbs, dev \in Devs :
        Start(Call("eraseChip", 0, 0, <<>>, hasCb, dev, NoReq, Pre), alone)

(* a platform promise settles or a timer fires; the promises settle in any *)
(* order                                                                   *)
Settle ==
    \E s \in inFlight :
        Step(s, stepped(resume(hookState, usb.calls[s])), usb)

-----
(* Spec: the life cycle of the USB hook, any order of calls; the caller    *)
(* awaits a call or makes connect and disconnect without waiting           *)

Init ==
    /\ isSupported \in BOOLEAN
    /\ device = NoDevice
    /\ isConnected = FALSE
    /\ devOpened = [d \in Devices |-> FALSE]
    /\ devConfigured = [d \in Devices |-> FALSE]
    /\ devClaimed = [d \in Devices |-> FALSE]
    /\ sessionOpen = FALSE
    /\ lastCall = NoCall
    /\ usb = UsbInitState
    /\ serial = SerialInitState
    /\ ws = WsInitState
    /\ flasher = FlasherInitState
    /\ app = AppInitState

Next ==
    \/ Connect(ConnectReqs, TRUE)
    \/ Disconnect(DisconnectFails, TRUE)
    \/ DetectChip(SmallDetectDevs, TRUE)
    \/ ReadData({0}, SmallLengths, BOOLEAN, SmallReadDevs, TRUE)
    \/ WriteData({0}, SmallLengths, {1}, BOOLEAN, SmallWriteDevs, TRUE)
    \/ EraseChip(BOOLEAN, EraseDevs, TRUE)
    \/ Connect(SharedConnectReqs, FALSE)
    \/ Disconnect({"none"}, FALSE)
    \/ DetectChip(SharedDetectDevs, FALSE)
    \/ ReadData(SharedAddresses, {1}, {TRUE}, {GoodDev}, FALSE)
    \/ WriteData({0}, {pageSize + 1}, {1}, {TRUE}, {GoodDev}, FALSE)
    \/ EraseChip({TRUE}, {GoodDev}, FALSE)
    \/ Settle

vars == <<isSupported, device, isConnected, devOpened, devConfigured, devClaimed,
          sessionOpen, lastCall, usb, serial, ws, flasher, app>>

Spec == Init /\ [][Next]_vars

-----------------------------------------------------------------------------
(* OpSpec: the data operations on a connected session: one call made on   *)
(* its own with inputs drawn from the full input sets, or calls made       *)
(* without waiting, among them connect and disconnect                      *)

OpInit ==
    /\ isSupported = TRUE
    /\ device = 1
    /\ isConnected = TRUE
    /\ devOpened = [d \in Devices |-> d = 1]
    /\ devConfigured = [d \in Devices |-> d = 1]
    /\ devClaimed = [d \in Devices |-> d = 1]
    /\ sessionOpen = TRUE
    /\ lastCall = NoCall
    /\ usb = UsbInitState
    /\ serial = SerialInitState
    /\ ws = WsInitState
    /\ flasher = FlasherInitState
    /\ app = AppInitState

OpDetect == usb.made = 0 /\ DetectChip(DetectDevs, TRUE)
OpRead == usb.made = 0 /\ ReadData(Addresses, Lengths, BOOLEAN, ReadDevs, TRUE)
OpWrite == usb.made = 0 /\ WriteData(Addresses, Lengths, Patterns, BOOLEAN, WriteDevs, TRUE)
OpErase == usb.made = 0 /\ EraseChip(BOOLEAN, EraseDevs, TRUE)

(* no call follows the call made on its own *)
unawaited == lastCall.op = "none" \/ ~lastCall.awaited

RaceConnect == unawaited /\ Connect(SharedConnectReqs, FALSE)
RaceDisconnect == unawaited /\ Disconnect({"none"}, FALSE)
RaceDetect == unawaited /\ DetectChip(SharedDetectDevs, FALSE)
RaceRead == unawaited /\ ReadData(SharedAddresses, {1}, {TRUE}, {GoodDev}, FALSE)
RaceWrite == unawaited /\ WriteData({0}, {pageSize + 1}, {1}, {TRUE}, {GoodDev}, FALSE)
RaceErase == unawaited /\ EraseChip({TRUE}, {GoodDev}, FALSE)

OpNext ==
    \/ OpDetect
    \/ OpRead
    \/ OpWrite
    \/ OpErase
    \/ RaceConnect
    \/ RaceDisconnect
    \/ RaceDetect
    \/ RaceRead
    \/ RaceWrite
    \/ RaceErase
    \/ Settle

OpSpec == OpInit /\ [][OpNext]_vars

-----------------------------------------------------------------------------
(* SerialSpec: the serial transport, its calls interleaved with the steps  *)
(* of its read loops                                                       *)

SerialInit ==
    /\ isSupported = TRUE
    /\ device = NoDevice
    /\ isConnected = FALSE
    /\ devOpened = [d \in Devices |-> FALSE]
    /\ devConfigured = [d \in Devices |-> FALSE]
    /\ devClaimed = [d \in Devices |-> FALSE]
    /\ sessionOpen = FALSE
    /\ lastCall = NoCall
    /\ usb = UsbInitState
    /\ serial \in {[SerialInitState EXCEPT !.supported = b, !.portInfo = portInfoOf(k)] :
                      b \in BOOLEAN, k \in {0, 1}}
    /\ ws = WsInitState
    /\ flasher = FlasherInitState
    /\ app = AppInitState

SerialNext ==
    \/ SerialConnect(SerialConnectReqs, TRUE)
    \/ SerialDisconnect(SerialDisconnectFails, TRUE)
    \/ SerialConnect(SharedSerialReqs, FALSE)
    \/ SerialDisconnect({"none"}, FALSE)
    \/ SerialSettle
    \/ LoopData(Chunks)
    \/ LoopDone
    \/ LoopError

SerialSpec == SerialInit /\ [][SerialNext]_vars

(* SerialCallSpec: the four calls of the serial transport in every order,  *)
(* write() and configure() also while connect() or disconnect() is at an   *)
(* await, and a write() that is at its await while the read loop delivers  *)
(* a chunk and disconnect() runs.  The other steps of the loop and the     *)
(* connect() calls that overlap are left to SerialSpec.                    *)
SerialCallInit ==
    /\ isSupported = TRUE
    /\ device = NoDevice
    /\ isConnected = FALSE
    /\ devOpened = [d \in Devices |-> FALSE]
    /\ devConfigured = [d \in Devices |-> FALSE]
    /\ devClaimed = [d \in Devices |-> FALSE]
    /\ sessionOpen = FALSE
    /\ lastCall = NoCall
    /\ usb = UsbInitState
    /\ serial \in {[SerialInitState EXCEPT !.supported = b] : b \in BOOLEAN}
    /\ ws = WsInitState
    /\ flasher = FlasherInitState
    /\ app = AppInitState

SerialCallNext ==
    \/ SerialConnect(SerialConnectReqs, TRUE)
    \/ SerialDisconnect(SerialDisconnectFails, TRUE)
    \/ SerialWrite(Texts, SerialWriteFails, TRUE)
    \/ SerialWrite(SharedTexts, {"none"}, FALSE)
    \/ SerialDisconnect({"none"}, FALSE)
    \/ SerialSettle
    \/ SerialConfigure
    \/ LoopData(SharedChunks)

SerialCallSpec == SerialCallInit /\ [][SerialCallNext]_vars

-----------------------------------------------------------------------------
(* WsSpec: the WebSocket hook, its calls interleaved with the events of    *)
(* its sockets and the firing of its reconnect timers                      *)

WsInit ==
    /\ isSupported = TRUE
    /\ device = NoDevice
    /\ isConnected = FALSE
    /\ devOpened = [d \in Devices |-> FALSE]
    /\ devConfigured = [d \in Devices |-> FALSE]
    /\ devClaimed = [d \in Devices |-> FALSE]
    /\ sessionOpen = FALSE
    /\ lastCall = NoCall
    /\ usb = UsbInitState
    /\ serial = SerialInitState
    /\ ws = WsInitState
    /\ flasher = FlasherInitState
    /\ app = AppInitState

WsNext ==
    \/ WsConnect
    \/ WsDisconnect
    \/ WsOnOpen
    \/ WsOnClose
    \/ WsTimerFired

WsSpec == WsInit /\ [][WsNext]_vars

-----------------------------------------------------------------------------
(* FlasherSpec: the handlers of the SPI flasher tab in every order,        *)
(* interleaved with the settling of the promises they await                *)

FlasherInit ==
    /\ isSupported = TRUE
    /\ device = useWebUSB.device
    /\ isConnected = useWebUSB.isConnected
    /\ devOpened = [d \in Devices |-> FALSE]
    /\ devConfigured = [d \in Devices |-> FALSE]
    /\ devClaimed = [d \in Devices |-> FALSE]
    /\ sessionOpen = FALSE
    /\ lastCall = NoCall
    /\ usb = UsbInitState
    /\ serial = SerialInitState
    /\ ws = WsInitState
    /\ flasher \in {[FlasherInitState EXCEPT !.toastSubscribed = b] : b \in BOOLEAN}
    /\ app = AppInitState

FlasherNext ==
    \/ HandleDetectChip(FlasherConnectReqs, TRUE)
    \/ HandleReadChip(SmallLengths, SmallReadDevs, TRUE)
    \/ HandleWriteChip(TRUE)
    \/ HandleEraseChip(EraseDevs, TRUE)
    \/ HandleVerifyChip(TRUE)
    \/ HandleDetectChip(SharedConnectReqs, FALSE)
    \/ HandleReadChip(SharedLengths, {GoodDev}, FALSE)
    \/ HandleWriteChip(FALSE)
    \/ HandleEraseChip({GoodDev}, FALSE)
    \/ HandleVerifyChip(FALSE)
    \/ HandleFileSelect
    \/ FlasherSettle
    \/ FlasherRender

FlasherSpec == FlasherInit /\ [][FlasherNext]_vars

-----------------------------------------------------------------------------
(* AppSpec: the buttons of the top bar and the command line of the serial  *)
(* console in every order, interleaved with the settling of the promises   *)
(* their calls await and with the steps of the read loops                  *)

AppInit ==
    /\ isSupported = TRUE
    /\ device = NoDevice
    /\ isConnected = FALSE
    /\ devOpened = [d \in Devices |-> FALSE]
    /\ devConfigured = [d \in Devices |-> FALSE]
    /\ devClaimed = [d \in Devices |-> FALSE]
    /\ sessionOpen = FALSE
    /\ lastCall = NoCall
    /\ usb = UsbInitState
    /\ serial = SerialInitState
    /\ ws = WsInitState
    /\ flasher = FlasherInitState
    /\ app = AppInitState

AppNext ==
    \/ TopBarHandleConnect
    \/ TopBarHandleRefreshPorts
    \/ ConsoleHandleSendCommand
    \/ AppSettle
    \/ AppLoopData
    \/ AppLoopDone
    \/ AppLoopError

AppSpec == AppInit /\ [][AppNext]_vars

-----------------------------------------------------------------------------
(* Properties.  Helpers to read the record of the last call. *)

IsOut(e) == e.kind = "out"
IsIn(e) == e.kind = "in"
IsTransfer(e) == e.kind \in {"out", "in"}
IsProgress(e) == e.kind = "progress"

logOuts(log) == SelectSeq(log, IsOut)
logIns(log) == SelectSeq(log, IsIn)
logTransfers(log) == SelectSeq(log, IsTransfer)
logProgress(log) == SelectSeq(log, IsProgress)

Ceil(n, d) == (n + d - 1) \div d

ProgressOps == {"readData", "writeData", "eraseChip"}

NonDecreasing(ps) ==
    \A i \in 1..(Len(ps) - 1) : ps[i].num * ps[i + 1].den <= ps[i + 1].num * ps[i].den

Is100(e) == e.num = 100 * e.den

commandOf(opcode, a) == <<opcode, (a \div 65536) % 256, (a \div 256) % 256, a % 256>>

(* C1: in every state where no USB session is open (no connect() has      *)
(* resolved yet, or a disconnect() has returned since the last one that    *)
(* did), detectChip, readData, writeData and eraseChip, called while no    *)
(* other call is in flight, reject with 'USB device not connected' and     *)
(* issue no control transfer.                                              *)
C1_NoSessionRejects ==
    (lastCall.op \in DataOps /\ ~lastCall.overlapped /\ ~lastCall.pre.sessionOpen) =>
        /\ lastCall.outcome = "rejected"
        /\ lastCall.error = "USB device not connected"
        /\ logTransfers(lastCall.log) = <<>>

(* C2: disconnect() never rejects, and once it has returned, no other     *)
(* call having been in flight during it, the hook is Disconnected (device  *)
(* = null, isConnected = false), also when releaseInterface(0) or close()  *)
(* failed.                                                                 *)
C2_DisconnectClearsSession ==
    lastCall.op = "disconnect" =>
        /\ lastCall.outcome = "resolved"
        /\ ~lastCall.overlapped => (device = NoDevice /\ ~isConnected)

(* C3: after any sequence of connect() and disconnect() calls at most one  *)
(* USB device is open, and every open device is the one the hook           *)
(* references.                                                             *)
C3_AtMostOneOpenDevice ==
    /\ Cardinality({d \in Devices : devOpened[d]}) <= 1
    /\ \A d \in Devices : devOpened[d] => device = d

(* C4: after any sequence of serial connect() and disconnect() calls the   *)
(* serial transport has at most one open port, at most one reader lock and *)
(* one writer lock, and at most one read loop running.                     *)
C4_AtMostOneSerialSession ==
    /\ Cardinality({p \in Ports : serial.portOpen[p]}) <= 1
    /\ Cardinality({p \in Ports : serial.readLock[p] # NoHandle}) <= 1
    /\ Cardinality({p \in Ports : serial.writeLock[p] # NoHandle}) <= 1
    /\ Cardinality(serial.loops) <= 1

(* C5: a readData(address, length) with length >= 1 that returns, no       *)
(* other call having been in flight during it, has issued ceil(length/256) *)
(* commands [0x03, hi, mid, lo] for address, address+256, ... in this      *)
(* order, the i-th followed by an IN transfer of min(256, length - 256*i)  *)
(* bytes, and returns 2*length hex characters.                             *)
C5_ReadReturnsLength ==
    (/\ lastCall.op = "readData" /\ lastCall.outcome = "resolved"
     /\ ~lastCall.overlapped /\ lastCall.length >= 1) =>
        LET t == logTransfers(lastCall.log)
            n == Ceil(lastCall.length, 256)
        IN /\ Len(t) = 2 * n
           /\ \A i \in 1..n :
                 /\ t[2 * i - 1] = Out(commandOf(3, lastCall.address + 256 * (i - 1)))
                 /\ t[2 * i] = In(Min(256, lastCall.length - 256 * (i - 1)))
           /\ Len(lastCall.value) = 2 * lastCall.length

payloadOf(cmd) == SubSeq(cmd, 5, Len(cmd))

RECURSIVE payloadsUpTo(_, _)
payloadsUpTo(outs, k) ==
    IF k = 0 THEN <<>> ELSE payloadsUpTo(outs, k - 1) \o payloadOf(outs[k].data)

(* C6: a writeData(address, data) of n bytes that completes has issued     *)
(* exactly ceil(n/256) commands [0x02, hi, mid, lo, ...page] and nothing   *)
(* else, each with at most 256 data bytes; the first carries address and   *)
(* each next one the previous address plus the bytes the previous one      *)
(* carried; the payloads in send order make up data.                       *)
C6_WritePages ==
    (lastCall.op = "writeData" /\ lastCall.outcome = "resolved") =>
        LET outs == logOuts(lastCall.log)
            n == Len(lastCall.data)
        IN /\ Len(outs) = Ceil(n, 256)
           /\ logTransfers(lastCall.log) = outs
           /\ \A i \in 1..Len(outs) :
                 /\ Len(outs[i].data) >= 4
                 /\ Len(payloadOf(outs[i].data)) <= 256
                 /\ SubSeq(outs[i].data, 1, 4) =
                        commandOf(2, lastCall.address + Len(payloadsUpTo(outs, i - 1)))
           /\ payloadsUpTo(outs, Len(outs)) = lastCall.data

C6_Witness ==
    /\ lastCall.op = "writeData" /\ lastCall.outcome = "resolved"
    /\ Len(lastCall.data) = 2 * 256 + 44
    /\ lastCall.address = 255
    /\ Len(logOuts(lastCall.log)) = 3

(* C7, as stated: in any readData, writeData or eraseChip call with a      *)
(* progress callback the values delivered are non-decreasing and the last  *)
(* value delivered is exactly 100.                                         *)
C7_FinalAlways100 ==
    (lastCall.op \in ProgressOps /\ lastCall.hasCb) =>
        LET ps == logProgress(lastCall.log)
        IN /\ NonDecreasing(ps)
           /\ ps # <<>> => Is100(ps[Len(ps)])

(* C7, amended: in any readData, writeData or eraseChip call with a        *)
(* progress callback the values delivered are non-decreasing; if the call  *)
(* resolves, and it is an erase or has at least one byte to transfer, the  *)
(* last value delivered is exactly 100.                                    *)
C7_MonotoneAnd100OnSuccess ==
    (lastCall.op \in ProgressOps /\ lastCall.hasCb) =>
        LET ps == logProgress(lastCall.log)
        IN /\ NonDecreasing(ps)
           /\ (lastCall.outcome = "resolved"
                  /\ (lastCall.op = "eraseChip" \/ lastCall.length >= 1)) =>
                 (ps # <<>> /\ Is100(ps[Len(ps)]))

C7_Witness ==
    /\ lastCall.op = "readData" /\ lastCall.hasCb /\ lastCall.outcome = "resolved"
    /\ lastCall.length = 256 + 44
    /\ Len(logProgress(lastCall.log)) = 2
    /\ Is100(logProgress(lastCall.log)[2])
    /\ ~Is100(logProgress(lastCall.log)[1])

(* C8: a readData, writeData or eraseChip call that rejects has not        *)
(* delivered the progress value 100.                                       *)
C8_No100OnReject ==
    (lastCall.op \in ProgressOps /\ lastCall.outcome = "rejected") =>
        \A i \in 1..Len(logProgress(lastCall.log)) : ~Is100(logProgress(lastCall.log)[i])

C8_Witness ==
    /\ lastCall.op = "writeData" /\ lastCall.outcome = "rejected" /\ lastCall.hasCb
    /\ Len(logProgress(lastCall.log)) >= 1

EraseRampValues == [i \in 1..11 |-> Progress(10 * (i - 1), 1)]

onOpenSession(call) == call.pre.device # NoDevice /\ call.pre.isConnected

(* C9: eraseChip on an open session sends exactly one command, [0xC7],     *)
(* before any progress is reported; when that transfer succeeds it calls   *)
(* the progress callback 11 times with 0, 10, ..., 100 in this order and   *)
(* resolves after the call with 100, whatever other calls are made         *)
(* meanwhile.                                                              *)
C9_EraseSequence ==
    (lastCall.op = "eraseChip" /\ onOpenSession(lastCall)) =>
        LET log == lastCall.log
        IN /\ logTransfers(log) = <<Out(<<199>>)>>
           /\ log[1] = Out(<<199>>)
           /\ lastCall.threw = 0 => lastCall.outcome = "resolved"
           /\ (lastCall.dev.failAt # 1 /\ ~lastCall.overlapped) =>
                 lastCall.outcome = "resolved"
           /\ lastCall.outcome = "rejected" => log = <<Out(<<199>>)>>
           /\ (lastCall.outcome = "resolved" /\ lastCall.hasCb) =>
                 log = <<Out(<<199>>)>> \o EraseRampValues
           /\ (lastCall.outcome = "resolved" /\ ~lastCall.hasCb) =>
                 log = <<Out(<<199>>)>>

C9_Witness ==
    /\ lastCall.op = "eraseChip" /\ lastCall.outcome = "resolved" /\ lastCall.hasCb
    /\ Len(logProgress(lastCall.log)) = 11

hex2(b) == HexDigitsUpper[(b \div 16) + 1] \o HexDigitsUpper[(b % 16) + 1]

(* C10: for every read-ID response of at least 3 bytes detectChip returns  *)
(* manufacturerId = byte 0 as 2 upper-case hex digits, deviceId = bytes 1  *)
(* and 2 as 4 upper-case hex digits, name W25Q128FV (16MB) for (EF,4018),  *)
(* MX25L6405D (8MB) for (C2,2017), 'Unknown Chip' with capacity 'Unknown'  *)
(* for every other pair, and block size 64KB, page size 256B always.  The  *)
(* response is what the IN transfer of the call delivered.                 *)
C10_DetectedChip ==
    (/\ lastCall.op = "detectChip"
     /\ lastCall.responses # <<>>
     /\ lastCall.responses[1].hasData
     /\ Len(lastCall.responses[1].bytes) >= 3) =>
        LET b == lastCall.responses[1].bytes
            c == lastCall.chip
            winbond == b[1] = 239 /\ b[2] = 64 /\ b[3] = 24
            macronix == b[1] = 194 /\ b[2] = 32 /\ b[3] = 23
        IN /\ lastCall.outcome = "resolved"
           /\ c.manufacturerId = hex2(b[1])
           /\ c.deviceId = hex2(b[2]) \o hex2(b[3])
           /\ c.blockSize = "64KB"
           /\ c.pageSize = "256B"
           /\ winbond => (c.name = "W25Q128FV" /\ c.capacity = "16MB (128Mbit)")
           /\ macronix => (c.name = "MX25L6405D" /\ c.capacity = "8MB (64Mbit)")
           /\ (~winbond /\ ~macronix) =>
                 (c.name = "Unknown Chip" /\ c.capacity = "Unknown")

C10_Witness ==
    /\ lastCall.op = "detectChip" /\ lastCall.outcome = "resolved"
    /\ lastCall.dev.idResp.bytes = <<194, 32, 23, 0>>
    /\ lastCall.responses = <<DataOf(<<194, 32, 23, 0>>)>>
    /\ lastCall.chip.name = "MX25L6405D"
    /\ lastCall.chip.deviceId = "2017"

-----------------------------------------------------------------------------
(* Claims C11 to C20 *)

ReadIdTransfers == <<Out(<<159, 0, 0, 0>>), In(4)>>

(* C11: detectChip on an open session sends one control-transfer-out      *)
(* carrying [0x9F,0,0,0] and then, when that transfer succeeds and no      *)
(* other call is made meanwhile, one control-transfer-in of 4 bytes, and   *)
(* nothing else; with both transfers done, a response of fewer than 3      *)
(* bytes or without data makes it reject with the detection error and      *)
(* return no chip record, a response of 3 or more bytes never does.        *)
C11_DetectTransfers ==
    (lastCall.op = "detectChip" /\ onOpenSession(lastCall)) =>
        LET t == logTransfers(lastCall.log)
            done == lastCall.responses # <<>>
            resp == lastCall.responses[1]
            enough == resp.hasData /\ Len(resp.bytes) >= 3
        IN /\ Len(t) \in 1..2
           /\ t = SubSeq(ReadIdTransfers, 1, Len(t))
           /\ (lastCall.threw # 1 /\ ~lastCall.overlapped) => Len(t) = 2
           /\ (lastCall.threw = 0 /\ ~lastCall.overlapped) => done
           /\ done => (Len(t) = 2 /\ lastCall.threw = 0)
           /\ (lastCall.threw # 0 /\ ~lastCall.overlapped) =>
                 lastCall.dev.failAt = lastCall.threw
           /\ (lastCall.dev.failAt \in 1..2 /\ ~lastCall.overlapped) =>
                 lastCall.threw = lastCall.dev.failAt
           /\ lastCall.outcome = "rejected" => lastCall.chip = NoChip
           /\ (done /\ ~enough) =>
                 /\ lastCall.outcome = "rejected"
                 /\ lastCall.error = "Chip detection failed: Failed to read chip ID"
           /\ (done /\ enough) =>
                 (lastCall.outcome = "resolved" /\ lastCall.chip # NoChip)

C11_Witness ==
    /\ lastCall.op = "detectChip" /\ lastCall.outcome = "rejected"
    /\ lastCall.threw = 0
    /\ lastCall.responses = <<DataOf(<<194, 32>>)>>
    /\ logTransfers(lastCall.log) = ReadIdTransfers

chooserCancelled(call) ==
    call.req.failStep = "requestDevice" /\ call.req.errName = "NotFoundError"

(* C13: when connect() is called on a Disconnected hook of a supporting    *)
(* browser and the user cancels the chooser, connect() rejects with 'No    *)
(* CH341A device selected', the hook stays Disconnected and holds no       *)
(* device, and open, selectConfiguration and claimInterface are not        *)
(* called; no other failure of connect() rejects with that message.        *)
C13_CancelDistinguishable ==
    (/\ lastCall.op = "connect"
     /\ isSupported
     /\ lastCall.pre.device = NoDevice
     /\ ~lastCall.pre.isConnected) =>
        /\ chooserCancelled(lastCall) =>
              /\ lastCall.outcome = "rejected"
              /\ lastCall.error = "No CH341A device selected"
              /\ device = NoDevice
              /\ ~isConnected
              /\ lastCall.log = <<PCall("requestDevice")>>
        /\ (lastCall.outcome = "rejected" /\ ~chooserCancelled(lastCall)) =>
              lastCall.error # "No CH341A device selected"

stepThrew(call) ==
    /\ call.outcome = "rejected"
    /\ call.req.failStep \in {"open", "selectConfiguration", "claimInterface"}
    /\ Len(call.log) > 0
    /\ call.log[Len(call.log)] = PCall(call.req.failStep)

(* C20: if connect() rejects because open(), selectConfiguration(1) or     *)
(* claimInterface(0) threw, then whatever the state before the call the    *)
(* hook is Disconnected afterwards (device = null, isConnected = false)    *)
(* and no device is left open.                                             *)
C20_FailedConnectLeavesNoSession ==
    (lastCall.op = "connect" /\ stepThrew(lastCall)) =>
        /\ device = NoDevice
        /\ ~isConnected
        /\ \A d \in Devices : ~devOpened[d]

(* C12: write(text) on a transport that holds a writer makes exactly one   *)
(* writer.write call, on that writer, with the encoding of text itself if  *)
(* text ends with a newline and of text followed by one newline otherwise. *)
C12_WriteAppendsNewline ==
    (serial.last.op = "write" /\ serial.last.pre.writer # NoHandle) =>
        LET t == serial.last.text
            expected == IF Len(t) > 0 /\ t[Len(t)] = "\n"
                        THEN encode(t)
                        ELSE encode(t) \o <<10>>
        IN serial.last.written = <<WriterWrite(serial.last.pre.writer, expected)>>

C12_Witness ==
    /\ serial.last.op = "write" /\ serial.last.outcome = "resolved"
    /\ serial.last.text = <<"A", "T", "\r">>
    /\ serial.last.written = <<WriterWrite(serial.writer, <<65, 84, 13, 10>>)>>

(* C14: connect() on a supporting browser, called on a transport that      *)
(* holds no port, reader or writer, with the chooser cancelled, rejects    *)
(* with 'No device selected', dispatches no event, starts no read loop and *)
(* leaves the transport without port, reader and writer.                   *)
C14_SerialChooserCancelled ==
    (/\ serial.last.op = "connect"
     /\ serial.supported
     /\ serial.last.failStep = "requestPort"
     /\ serial.last.errName = "NotFoundError"
     /\ serial.last.pre.port = NoPort
     /\ serial.last.pre.reader = NoHandle
     /\ serial.last.pre.writer = NoHandle) =>
        /\ serial.last.outcome = "rejected"
        /\ serial.last.error = "No device selected"
        /\ serial.last.emitted = <<>>
        /\ ~serial.last.loopStarted
        /\ serial.port = NoPort
        /\ serial.reader = NoHandle
        /\ serial.writer = NoHandle

C14_Witness ==
    /\ serial.last.op = "connect" /\ serial.last.outcome = "rejected"
    /\ serial.supported
    /\ serial.last.failStep = "requestPort"
    /\ serial.last.errName = "NotFoundError"
    /\ serial.last.pre.port = NoPort
    /\ serial.port = NoPort
    /\ serial.loops = {}

(* the teardown step chosen to fail is one disconnect() reaches, or the    *)
(* port it closes is not open                                              *)
teardownThrew(call) ==
    \/ call.failStep \in {"cancel", "readerRelease"} /\ call.pre.reader # NoHandle
    \/ call.failStep = "writerRelease" /\ call.pre.writer # NoHandle
    \/ /\ call.pre.port # NoPort
       /\ (call.failStep = "close" \/ ~call.pre.portOpen[call.pre.port])

(* C15: disconnect() rejects with 'Failed to disconnect: <message>' and    *)
(* dispatches no event when a teardown step (reader cancel, reader         *)
(* release, writer release, port close) throws; otherwise it resolves      *)
(* having dispatched exactly one event, a disconnect event.  Which step    *)
(* throws is told from the state disconnect() was called in when no other  *)
(* call was in flight during it.                                           *)
C15_DisconnectOutcome ==
    serial.last.op = "disconnect" =>
        /\ IF serial.last.outcome = "rejected"
           THEN /\ \E n \in 1..Len(serial.last.error) :
                      serial.last.error = "Failed to disconnect: "
                          \o SubSeq(serial.last.error, n, Len(serial.last.error))
                /\ serial.last.emitted = <<>>
           ELSE /\ serial.last.outcome = "resolved"
                /\ serial.last.emitted = <<SerialEvent("disconnect", "")>>
        /\ ~serial.last.overlapped =>
              IF teardownThrew(serial.last)
              THEN /\ serial.last.outcome = "rejected"
                   /\ serial.last.error = "Failed to disconnect: " \o TransferErrMsg
              ELSE serial.last.outcome = "resolved"

C15_Witness ==
    /\ serial.last.op = "disconnect" /\ serial.last.outcome = "rejected"
    /\ serial.last.failStep = "writerRelease"
    /\ serial.last.pre.writer # NoHandle
    /\ serial.writer # NoHandle

(* C16: write(text) on a transport that holds no writer rejects with 'Not  *)
(* connected to serial device' and makes no writer.write call.             *)
C16_WriteWithoutWriter ==
    (serial.last.op = "write" /\ serial.last.pre.writer = NoHandle) =>
        /\ serial.last.outcome = "rejected"
        /\ serial.last.error = "Not connected to serial device"
        /\ serial.last.written = <<>>

C16_Witness ==
    /\ serial.last.op = "write" /\ serial.last.outcome = "rejected"
    /\ serial.last.pre.writer = NoHandle
    /\ serial.last.written = <<>>
    /\ Len(serial.events) > 0
    /\ serial.events[Len(serial.events)].type = "disconnect"

configureChangedNothing ==
    /\ serial.last.emitted = <<>>
    /\ ~serial.last.loopStarted
    /\ serial.port = serial.last.pre.port
    /\ serial.reader = serial.last.pre.reader
    /\ serial.writer = serial.last.pre.writer
    /\ serial.isReading = serial.last.pre.isReading
    /\ serial.portOpen = serial.last.pre.portOpen
    /\ serial.portParams = serial.last.pre.portParams
    /\ \A p \in Ports : serial.portOpen[p] => serial.portParams[p].baudRate = 115200

(* C17 as stated: configure(options) resolves in any state and changes     *)
(* nothing.                                                                *)
C17_ConfigureAlwaysResolves ==
    serial.last.op = "configure" =>
        (serial.last.outcome = "resolved" /\ configureChangedNothing)

(* C17: configure(options) changes nothing and dispatches no event for any *)
(* options in any state; it resolves when the transport holds a port and   *)
(* rejects with 'Not connected to serial device' when it holds none.       *)
C17_ConfigureNoOp ==
    serial.last.op = "configure" =>
        /\ configureChangedNothing
        /\ IF serial.last.pre.port # NoPort
           THEN serial.last.outcome = "resolved"
           ELSE /\ serial.last.outcome = "rejected"
                /\ serial.last.error = "Not connected to serial device"

C17_Witness ==
    /\ serial.last.op = "configure" /\ serial.last.outcome = "resolved"
    /\ serial.last.options.baudRate = 9600
    /\ serial.port # NoPort
    /\ serial.portOpen[serial.port]
    /\ serial.portParams[serial.port] = OpenParams

(* C18: every data or error event is dispatched after a connect event with *)
(* no disconnect event between the two.                                    *)
C18_EventsOrdered ==
    \A i \in 1..Len(serial.events) :
        serial.events[i].type \in {"data", "error"} =>
            \E j \in 1..(i - 1) :
                /\ serial.events[j].type = "connect"
                /\ \A k \in (j + 1)..(i - 1) : serial.events[k].type # "disconnect"

terminatedLoops == serial.started \ {l.id : l \in serial.loops}

(* C19: once the read loop started by a connect() has returned, the reader *)
(* and the writer that connect() created hold no lock and the transport    *)
(* references neither of them.                                             *)
C19_TerminatedLoopReleased ==
    \A h \in terminatedLoops :
        /\ \A p \in Ports : serial.readLock[p] # h /\ serial.writeLock[p] # h
        /\ serial.reader # h
        /\ serial.writer # h

-----------------------------------------------------------------------------
(* Claims C21 to C30 *)

transfersNeeded(call) ==
    IF call.op = "readData" THEN 2 * Ceil(call.length, 256) ELSE Ceil(call.length, 256)

(* C21: when the k-th control transfer of a readData or writeData call      *)
(* throws, the call has issued exactly k transfers, the failing one last   *)
(* and nothing after it, and rejects with 'Read operation failed: ' or     *)
(* 'Write operation failed: ' followed by the underlying message; readData *)
(* returns no data.                                                        *)
C21_TransferFailureStopsCall ==
    /\ (/\ lastCall.op \in {"readData", "writeData"}
        /\ onOpenSession(lastCall)
        /\ ~lastCall.overlapped
        /\ lastCall.dev.failAt \in 1..transfersNeeded(lastCall)) =>
           lastCall.threw = lastCall.dev.failAt
    /\ (lastCall.op \in {"readData", "writeData"} /\ lastCall.threw > 0) =>
           /\ lastCall.outcome = "rejected"
           /\ Len(logTransfers(lastCall.log)) = lastCall.threw
           /\ IsTransfer(lastCall.log[Len(lastCall.log)])
           /\ lastCall.error =
                 (IF lastCall.op = "readData" THEN "Read operation failed: "
                  ELSE "Write operation failed: ") \o "A transfer error has occurred."
           /\ lastCall.value = ""

C21_Witness ==
    /\ lastCall.op = "readData" /\ lastCall.outcome = "rejected"
    /\ lastCall.length = 3 * 256
    /\ lastCall.dev.failAt = 4
    /\ lastCall.threw = 4
    /\ lastCall.hasCb
    /\ Len(logTransfers(lastCall.log)) = 4
    /\ Len(logProgress(lastCall.log)) = 1

(* the call whose code runs in a step: the one that returns in it, or one *)
(* in flight after it whose record the step changed                        *)
ranIn(c, d) == [c EXCEPT !.overlapped = FALSE] # [d EXCEPT !.overlapped = FALSE]

dataOpRan ==
    \/ lastCall'.op \in DataOps
    \/ \E s \in Slots : usb'.calls[s].op \in DataOps /\ ranIn(usb.calls[s], usb'.calls[s])

(* C22: no step of detectChip, readData, writeData or eraseChip changes    *)
(* the device the hook holds or its isConnected flag, and when no other    *)
(* call was in flight during the call both are after the call as they were *)
(* before it, whether the call resolves or rejects.                        *)
C22_DataOpsKeepSession ==
    /\ [](lastCall.op \in DataOps /\ ~lastCall.overlapped =>
             device = lastCall.pre.device /\ isConnected = lastCall.pre.isConnected)
    /\ [][dataOpRan => (device' = device /\ isConnected' = isConnected)]_vars

C22_Witness ==
    /\ lastCall.op = "readData" /\ lastCall.outcome = "rejected"
    /\ lastCall.threw = 2
    /\ lastCall.pre.device # NoDevice /\ lastCall.pre.isConnected
    /\ device = lastCall.pre.device /\ isConnected

(* the text of the chunks the model's devices send *)
chunkText(chunk) ==
    IF chunk = <<79, 75>> THEN "OK"
    ELSE IF chunk = <<65, 84, 10>> THEN "AT\n"
    ELSE ""

pendingLoopIds == {l.id : l \in serial.loops}

(* C23: a read() of the loop that resolves with a non-empty chunk appends  *)
(* exactly one event to the events dispatched so far, a data event with    *)
(* the decoded text of that chunk alone; a read() that resolves with done  *)
(* ends the loop and dispatches no event.                                  *)
C23_ChunkPerDataEvent ==
    /\ (serial.last.op = "loopData" /\ serial.last.chunk # <<>>) =>
          serial.events = Append(serial.last.pre.events,
                                 SerialEvent("data", chunkText(serial.last.chunk)))
    /\ serial.last.op = "loopDone" =>
          /\ serial.events = serial.last.pre.events
          /\ serial.last.loop \notin pendingLoopIds

C23_Witness ==
    /\ serial.last.op = "loopData"
    /\ serial.last.chunk = <<65, 84, 10>>
    /\ Len(serial.events) >= 3
    /\ serial.events[Len(serial.events) - 1] = SerialEvent("data", "OK")
    /\ serial.events[Len(serial.events)] = SerialEvent("data", "AT\n")

(* C24: a read() of the loop that rejects appends exactly one event, an    *)
(* error event with the failure message, when isReading is set, and no     *)
(* event when isReading is cleared; either way that loop has returned and  *)
(* no new loop is started.                                                 *)
C24_ReadFailure ==
    serial.last.op = "loopError" =>
        /\ IF serial.last.pre.isReading
           THEN serial.events = Append(serial.last.pre.events,
                                       SerialEvent("error", "A transfer error has occurred."))
           ELSE serial.events = serial.last.pre.events
        /\ serial.last.loop \notin pendingLoopIds
        /\ ~serial.last.loopStarted

C24_Witness ==
    /\ serial.last.op = "loopError"
    /\ ~serial.last.pre.isReading
    /\ serial.events = serial.last.pre.events
    /\ \E i \in 1..Len(serial.events) : serial.events[i].type = "connect"

(* C25: disconnect() on a transport that holds a reader clears isReading   *)
(* first, then calls reader.cancel(), and releases the reader lock only    *)
(* after that; once cancel() has resolved no loop has a read pending on    *)
(* that reader, and no loop ever has a read pending on a reader whose      *)
(* releaseLock() was called.  The calls of the transport are made one      *)
(* after the other, each when the one before has returned.                 *)
C25_DisconnectStopsLoop ==
    /\ (serial.last.op = "disconnect" /\ serial.last.pre.reader # NoHandle) =>
          /\ ~serial.last.overlapped => ~serial.isReading
          /\ Len(serial.last.steps) >= 2
          /\ serial.last.steps[1] = "isReading = false"
          /\ serial.last.steps[2] = "reader.cancel"
          /\ \A i \in 1..Len(serial.last.steps) :
                serial.last.steps[i] = "reader.releaseLock" => i = 3
          /\ ~serial.last.rejects =>
                \A l \in serial.loops : l.reader # serial.last.pre.reader
    /\ serial.overlaps = 0 => \A l \in serial.loops : l.reader \notin serial.released

C25_Witness ==
    /\ serial.last.op = "disconnect" /\ serial.last.outcome = "resolved"
    /\ serial.last.pre.reader # NoHandle
    /\ serial.last.pre.isReading
    /\ serial.last.steps[3] = "reader.releaseLock"
    /\ serial.loops = {}
    /\ \E i \in 1..Len(serial.events) : serial.events[i].type = "data"

(* C26: parseConnectionError classifies the error connect() rejects with   *)
(* when the user cancels the chooser as DEVICE_NOT_SELECTED in category    *)
(* 'permission'.                                                           *)
C26_CancelClassified ==
    (lastCall.op = "connect" /\ isSupported /\ chooserCancelled(lastCall)) =>
        /\ parseConnectionError(lastCall.error).code = "DEVICE_NOT_SELECTED"
        /\ parseConnectionError(lastCall.error).category = "permission"

liveSockets == {s \in Sockets : ws.readyState[s] \in {"CONNECTING", "OPEN"}}

(* C27: from a call of disconnect() until the next call of connect() by    *)
(* the component, no reconnect timeout is pending and no WebSocket is      *)
(* created.                                                                *)
C27_NoReconnectAfterDisconnect ==
    ws.stopped => (ws.timers = {} /\ ws.created = ws.createdAtStop)

(* C28: at most one WebSocket is CONNECTING or OPEN, and it is the one     *)
(* wsRef references.                                                       *)
C28_OneLiveSocket ==
    /\ Cardinality(liveSockets) <= 1
    /\ \A s \in liveSockets : ws.wsRef = s

FlasherDataHandlers ==
    {"handleReadChip", "handleWriteChip", "handleEraseChip", "handleVerifyChip"}

(* C29: once a chip has been detected, a Read, Write, Erase or Verify of   *)
(* the SPI flasher issues control transfers and does not fail with 'USB    *)
(* device not connected', and while the detected programmer is claimed the *)
(* isConnected value the component reads is true.                          *)
C29_FlasherSessionPersists ==
    /\ (flasher.last.handler \in FlasherDataHandlers /\ flasher.last.called) =>
          /\ flasher.last.error # "USB device not connected"
          /\ logTransfers(flasher.last.log) # <<>>
    /\ (flasher.detectedChip # NoChip /\ \E d \in Devices : devClaimed[d]) =>
          flasher.isConnected

(* C30: the console shares the serial session of the top bar: its          *)
(* isConnected is true while the top bar is connected and false while it   *)
(* is not, and a command submitted while the top bar is connected is       *)
(* written to the writer of the port the top bar opened.                   *)
C30_ConsoleUsesTopBarSession ==
    /\ app.console.isConnected = app.topbar.isConnected
    /\ (/\ app.last.handler = "console.handleSendCommand"
        /\ app.last.sent
        /\ app.last.topbarConnected) =>
          /\ app.last.written # <<>>
          /\ \A i \in 1..Len(app.last.written) :
                app.last.written[i].writer = app.last.topbarWriter

====
